---- MODULE Spec2Model ----
(***************************************************************************)
(* Model of the football prediction application (football_app).            *)
(*                                                                         *)
(* Spec            the season resolver, one action per handler:            *)
(*                 Season.save, SeasonAdmin.set_as_current_season and the  *)
(*                 set_current_season command                              *)
(* SpecSeasonConc  two concurrent set-current operations, one step per     *)
(*                 database statement                                      *)
(* SpecPredict     prediction submission: MatchPredictionForm,             *)
(*                 BulkPredictionForm and MatchPredict.save                *)
(* SpecPredictConc two concurrent submissions of one user for one match    *)
(* SpecScore       the scorer: MatchPredict.calculate_points               *)
(* SpecStats       the aggregator: GroupMembership.update_stats and        *)
(*                 UserProfile.update_stats                                *)
(* SpecStatsConc   two concurrent recomputes of one membership             *)
(* SpecTable       the standings calculator: league_detail                 *)
(* SpecGroup       groups and invitations: join, send, accept, decline     *)
(*                 and the expiry checks                                   *)
(* SpecGroupConc   concurrent join and accept requests for one group       *)
(* SpecPopulate    the populate_seasons command on the Season table        *)
(* SpecResult      a match is finished, scored and aggregated              *)
(* SpecCode        UserGroup.save and the join code                        *)
(* SpecForm        CreateGroupForm and create_group_view                   *)
(***************************************************************************)
EXTENDS Integers, Sequences, FiniteSets, TLC

VARIABLES
    is_current,     \* Season.is_current of every season row
    is_active,      \* Season.is_active of every season row
    seasonLog,      \* the last season operation and the flags before it
    spc,            \* position of each concurrent season writer
    sinst,          \* the Season instance each concurrent writer holds
    now,            \* timezone.now()
    status,         \* Fixture.status_short of the match
    home_goals,     \* Fixture.home_goals (Null when absent)
    away_goals,     \* Fixture.away_goals (Null when absent)
    pred,           \* the MatchPredict row of (user, match)
    predLog,        \* the last prediction operation: whether it was accepted,
                    \* and the input of an accepted one
    scoreLog,       \* the last scoring call, its return value, the points before
    preq,           \* the concurrent prediction requests of the user
    book,           \* the user's matches: Fixture fields and the MatchPredict row
    group_leagues,  \* UserGroup.leagues of the group
    member,         \* the statistics of the user's GroupMembership row
    profile,        \* the statistics of the user's UserProfile row
    statLog,        \* the last aggregator operation
    ureq,           \* the concurrent update_stats calls on the membership
    results,        \* the MatchResult rows
    table,          \* the last response of league_detail
    today,          \* timezone.now(), in days
    group,          \* the UserGroup row: is_private and max_members
    members,        \* the users with a GroupMembership row in the group
    invitations,    \* the GroupInvitation row of the group for every invitee
    groupLog,       \* the last group operation and the state before it
    greq,           \* the concurrent join and accept requests for the group
    season_table,   \* the Season table of the populate_seasons command
    popLog,         \* the last operation on that table and the table before it
    ugroups,        \* the UserGroup rows: whether stored, and join_code
    codeLog,        \* the last save of a UserGroup and the join_code before it
    gstore,         \* what a group creation stored: the group row, the creator's
                    \* membership, the leagues, the round and the date records
    formLog         \* the last submission of CreateGroupForm and its outcome

seasonVars == <<is_current, is_active, seasonLog>>
seasonProcVars == <<spc, sinst>>
fixtureVars == <<now, status, home_goals, away_goals>>
predVars == <<pred, predLog, scoreLog>>
statVars == <<book, group_leagues, member, profile, statLog, ureq>>
tableVars == <<results, table>>
groupVars == <<today, group, members, invitations, groupLog, greq>>
populateVars == <<season_table, popLog>>
codeVars == <<ugroups, codeLog>>
formVars == <<gstore, formLog>>
extraVars == <<populateVars, codeVars, formVars>>
otherVars == <<statVars, tableVars, groupVars, extraVars>>
nonStatVars == <<seasonVars, seasonProcVars, fixtureVars, predVars, preq,
                 tableVars, groupVars, extraVars>>
nonTableVars == <<seasonVars, seasonProcVars, fixtureVars, predVars, preq,
                  statVars, groupVars, extraVars>>
nonGroupVars == <<seasonVars, seasonProcVars, fixtureVars, predVars, preq,
                  statVars, tableVars, extraVars>>
nonExtraVars == <<seasonVars, seasonProcVars, fixtureVars, predVars, preq,
                  statVars, tableVars, groupVars>>
nonSeasonVars == <<fixtureVars, predVars, preq, otherVars>>
nonPredVars == <<seasonVars, seasonProcVars, preq, otherVars>>
vars == <<is_current, is_active, seasonLog, spc, sinst,
          now, status, home_goals, away_goals, pred, predLog, scoreLog, preq,
          book, group_leagues, member, profile, statLog, ureq,
          results, table, today, group, members, invitations, groupLog, greq,
          season_table, popLog, ugroups, codeLog, gstore, formLog>>

(***************************************************************************)
(* Season rows.  League is a nullable foreign key: NoLeague is NULL.       *)
(***************************************************************************)
NoLeague == "NoLeague"
\* get_current_season returning None, and its uncaught MultipleObjectsReturned
NoSeason == 0
MultipleSeasons == -1
Seasons == 1..5
SeasonLeague == <<"L1", "L1", "L2", NoLeague, NoLeague>>
SeasonStartYear == <<2024, 2025, 2025, 2026, 2027>>
SeasonEndYear == [s \in Seasons |-> SeasonStartYear[s] + 1]
Leagues == {"L1", "L2"}
Scopes == Leagues \cup {NoLeague}

\* the inputs of the set_current_season command: "YYYY/YYYY" or anything else
SeasonNames == {<<y, y + 1>> : y \in 2023..2027} \cup {<<2024, 2026>>, <<"x">>}

\* Season.objects.filter(is_current=True).update(is_current=False)
ClearAllCurrent(cur) == [s \in Seasons |-> FALSE]

\* Season.objects.filter(league=season.league, is_current=True).update(is_current=False)
ClearLeagueCurrent(cur, league) ==
    [s \in Seasons |-> IF SeasonLeague[s] = league THEN FALSE ELSE cur[s]]

\* a faulty Season.save that does not clear the other flags
SaveFlagsNoClear(cur, s, flag) == [cur EXCEPT ![s] = flag]

\* Season.save: clear every current flag when the instance is current, then
\* write the instance's row
SaveFlags(cur, s, flag) ==
    [(IF flag THEN ClearAllCurrent(cur) ELSE cur) EXCEPT ![s] = flag]

\* the rows matched by get(is_current=True[, league=league])
CurrentRows(cur, league) ==
    IF league # NoLeague
    THEN {s \in Seasons : cur[s] /\ SeasonLeague[s] = league}
    ELSE {s \in Seasons : cur[s]}

\* the rows of filter(is_active=True[, league=league]), ordering -start_year
ActiveRows(act, league) ==
    IF league # NoLeague
    THEN {s \in Seasons : act[s] /\ SeasonLeague[s] = league}
    ELSE {s \in Seasons : act[s]}

FirstByStartYear(rows) ==
    IF rows = {} THEN {NoSeason}
    ELSE {s \in rows : \A t \in rows : SeasonStartYear[t] <= SeasonStartYear[s]}

\* Season.get_current_season: the set of values the call can return
GetCurrentSeason(cur, act, league) ==
    LET rows == CurrentRows(cur, league) IN
    IF Cardinality(rows) = 1 THEN rows
    ELSE IF rows = {} THEN FirstByStartYear(ActiveRows(act, league))
    ELSE {MultipleSeasons}

NoSeasonOp == [op |-> "none", target |-> 0, set_current |-> FALSE,
               before |-> [s \in Seasons |-> FALSE]]

SeasonInit ==
    /\ is_current = [s \in Seasons |-> FALSE]
    /\ is_active = [s \in Seasons |-> TRUE]
    /\ seasonLog = NoSeasonOp

SeasonProcs == {1, 2}

SeasonProcInit ==
    /\ spc = [p \in SeasonProcs |-> "idle"]
    /\ sinst = [p \in SeasonProcs |-> 0]

(***************************************************************************)
(* Fixtures and predictions.  One match and one user: the (user, match)    *)
(* pair the unique_together of MatchPredict is about.                      *)
(***************************************************************************)
\* NULL of a nullable PositiveIntegerField
Null == -1

\* bounds of the model: scores and goals range over 0..MaxScore, the clock
\* over 0..MaxTime
MaxScore == 1
MaxTime == 2

\* Fixture.date of the match, on the model's clock
Kickoff == 1

\* Fixture.FIXTURE_STATUS_CHOICES: short code, long name, phase
FIXTURE_STATUS_CHOICES == <<
    <<"TBD", "Time To Be Defined", "Scheduled">>,
    <<"NS", "Not Started", "Scheduled">>,
    <<"1H", "First Half, Kick Off", "In Play">>,
    <<"HT", "Halftime", "In Play">>,
    <<"2H", "Second Half, 2nd Half Started", "In Play">>,
    <<"ET", "Extra Time", "In Play">>,
    <<"BT", "Break Time", "In Play">>,
    <<"P", "Penalty In Progress", "In Play">>,
    <<"SUSP", "Match Suspended", "In Play">>,
    <<"INT", "Match Interrupted", "In Play">>,
    <<"FT", "Match Finished", "Finished">>,
    <<"AET", "Match Finished", "Finished">>,
    <<"PEN", "Match Finished", "Finished">>,
    <<"PST", "Match Postponed", "Postponed">>,
    <<"CANC", "Match Cancelled", "Cancelled">>,
    <<"ABD", "Match Abandoned", "Abandoned">>,
    <<"AWD", "Technical Loss", "Not Played">>,
    <<"WO", "WalkOver", "Not Played">>,
    <<"LIVE", "In Progress", "In Play">> >>

StatusCodes == {FIXTURE_STATUS_CHOICES[i][1] : i \in 1..Len(FIXTURE_STATUS_CHOICES)}

StatusRow(code) ==
    FIXTURE_STATUS_CHOICES[CHOOSE i \in 1..Len(FIXTURE_STATUS_CHOICES) :
                               FIXTURE_STATUS_CHOICES[i][1] = code]

\* Fixture.status_long of a status code
StatusLong(code) == StatusRow(code)[2]

\* the phase column of the status table
StatusPhase(code) == StatusRow(code)[3]

Scores == {Null} \cup (0..MaxScore)
PREDICTION_CHOICES == {"H", "D", "A"}

\* no MatchPredict row for (user, match)
NoRow == [exists |-> FALSE, predicted_result |-> "", predicted_home_score |-> Null,
          predicted_away_score |-> Null, points_earned |-> 0]

NoPredOp == [op |-> "none", accepted |-> FALSE, result |-> "", home |-> Null,
             away |-> Null]
NoScoreOp == [op |-> "none", returned |-> 0, before |-> 0]

\* the record of a submission: a rejected one keeps no input
PredOp(op, accepted, result, h, a) ==
    IF accepted
    THEN [op |-> op, accepted |-> TRUE, result |-> result, home |-> h, away |-> a]
    ELSE [op |-> op, accepted |-> FALSE, result |-> "", home |-> Null, away |-> Null]

FixtureIdle ==
    /\ now = 0
    /\ status = "NS"
    /\ home_goals = Null
    /\ away_goals = Null

PredictProcs == {1, 2}

IdleRequest == [pc |-> "idle", route |-> "", result |-> "", home |-> Null,
                away |-> Null, instance |-> FALSE, outcome |-> ""]

PredIdle ==
    /\ pred = NoRow
    /\ predLog = NoPredOp
    /\ scoreLog = NoScoreOp
    /\ preq = [p \in PredictProcs |-> IdleRequest]

SeasonIdle == SeasonInit /\ SeasonProcInit

(***************************************************************************)
(* Aggregator data: the matches of one user, each with the user's          *)
(* MatchPredict row (NoRow when the user made no prediction), and the      *)
(* statistics rows recomputed from them.                                   *)
(***************************************************************************)
StatMatches == {1, 2}

\* Fixture.league of the two matches
MatchLeague == <<"L1", "L2">>

\* GroupMembership and UserProfile statistics default to 0
NoStats == [total_points |-> 0, total_predictions |-> 0,
            correct_predictions |-> 0, exact_predictions |-> 0]
NoProfileStats == [total_points |-> 0, total_predictions |-> 0,
                   correct_predictions |-> 0]

\* a scheduled match without a prediction
NoEntry == [status |-> "NS", home_goals |-> Null, away_goals |-> Null, p |-> NoRow]

StatProcs == {1, 2}

IdleStatRequest == [pc |-> "idle", inst |-> NoStats, overlapped |-> FALSE]

StatIdle ==
    /\ book = [m \in StatMatches |-> NoEntry]
    /\ group_leagues = {}
    /\ member = NoStats
    /\ profile = NoProfileStats
    /\ statLog = "none"
    /\ ureq = [p \in StatProcs |-> IdleStatRequest]

(***************************************************************************)
(* Standings data: the MatchResult rows of two matches and the teams of    *)
(* the leagues.                                                            *)
(***************************************************************************)
ResultIds == {1, 2}

\* Team rows in the order of Team.Meta.ordering, and the league of each
TeamOrder == <<"T1", "T2", "T3">>
Teams == {TeamOrder[i] : i \in 1..Len(TeamOrder)}
TeamLeague == [t \in Teams |-> IF t = "T3" THEN "L2" ELSE "L1"]

\* the seasons a match belongs to and a request selects
TableSeasons == {1, 2}

\* a scheduled match without scores
BlankResult(home, away, league, season) ==
    [home_team |-> home, away_team |-> away, league |-> league, season |-> season,
     status |-> "scheduled", home_score |-> Null, away_score |-> Null]

\* no response of league_detail
NoTable == [op |-> "none", outcome |-> "", league |-> "", season |-> 0, rows |-> <<>>]

TableIdle ==
    /\ results = [m \in ResultIds |-> BlankResult("T1", "T2", "L1", 1)]
    /\ table = NoTable

(***************************************************************************)
(* Group data: one group, its members and the invitations to it.           *)
(***************************************************************************)
\* the users that join by code, the one of them that is invited, and the
\* creator of the group, who is its admin
Users == {"u1", "u2"}
Invitees == {"u1"}
Creator == "admin"

\* no GroupInvitation row for (group, invitee)
NoInvitation == [exists |-> FALSE, status |-> "", created_at |-> 0]

NoGroupOp == [op |-> "none", method |-> "", user |-> "", ok |-> FALSE,
              fault |-> FALSE, before |-> NoInvitation, was_member |-> FALSE,
              was_expired |-> FALSE]

GroupProcs == {1, 2}

IdleGroupRequest == [pc |-> "idle", route |-> "", user |-> "", outcome |-> ""]

GroupIdle ==
    /\ greq = [p \in GroupProcs |-> IdleGroupRequest]
    /\ today = 0
    /\ group = [is_private |-> FALSE, max_members |-> 50]
    /\ members = {Creator}
    /\ invitations = [u \in Invitees |-> NoInvitation]
    /\ groupLog = NoGroupOp

\* the Season table of the populate_seasons command: a row is keyed by its
\* start year (end_year is start_year + 1) and its league, as
\* unique_together ['league', 'start_year', 'end_year'] keys it
PopYears == {2023, 2024, 2025}
PopLeagues == {NoLeague, "L1"}
PopKeys == PopYears \X PopLeagues
NoSeasonRow == [exists |-> FALSE, is_current |-> FALSE]
EmptySeasonTable == [k \in PopKeys |-> NoSeasonRow]
NoPopOp == [op |-> "none", outcome |-> "", created |-> 0, before |-> EmptySeasonTable]

PopulateIdle ==
    /\ season_table = EmptySeasonTable
    /\ popLog = NoPopOp

\* the UserGroup table: a join code is a sequence of characters
GroupIds == {1, 2}
NoCode == <<>>
NoGroupRow == [exists |-> FALSE, join_code |-> NoCode]
NoCodeOp == [op |-> "none", group |-> 0, outcome |-> "", before |-> NoCode]

CodeIdle ==
    /\ ugroups = [g \in GroupIds |-> NoGroupRow]
    /\ codeLog = NoCodeOp

\* a submission of CreateGroupForm: no league, season or text given
NoConfig == [selection_type |-> "leagues", leagues |-> {}, round_league |-> NoLeague,
             round_season |-> NoSeason, round_numbers |-> <<>>, match_dates |-> <<>>,
             date_leagues |-> {}]
EmptyStore == [group |-> FALSE, creator_member |-> FALSE, leagues |-> {}, rounds |-> {},
               dates |-> {}]
NoFormOp == [op |-> "none", outcome |-> "", input |-> NoConfig]

FormIdle ==
    /\ gstore = EmptyStore
    /\ formLog = NoFormOp

ExtraIdle == PopulateIdle /\ CodeIdle /\ FormIdle

OtherIdle == StatIdle /\ TableIdle /\ GroupIdle /\ ExtraIdle

(***************************************************************************)
(* Sequential season operations: each action is one whole handler.         *)
(***************************************************************************)

\* A Season edited in the admin (change form or list_editable) and saved
SeasonSave(s, flag, act) ==
    /\ is_current' = SaveFlags(is_current, s, flag)
    /\ is_active' = [is_active EXCEPT ![s] = act]
    /\ seasonLog' = [op |-> "save", target |-> s, set_current |-> flag,
                     before |-> is_current]
    /\ UNCHANGED <<seasonProcVars, nonSeasonVars>>

\* SeasonAdmin.set_as_current_season on the selected rows
AdminSetAsCurrent(queryset) ==
    /\ IF Cardinality(queryset) # 1
       THEN /\ seasonLog' = [op |-> "admin_error", target |-> 0,
                             set_current |-> FALSE, before |-> is_current]
            /\ UNCHANGED <<is_current, is_active>>
       ELSE LET season == CHOOSE s \in queryset : TRUE
                cleared == IF SeasonLeague[season] # NoLeague
                           THEN ClearLeagueCurrent(is_current, SeasonLeague[season])
                           ELSE ClearAllCurrent(is_current)
            IN /\ is_current' = SaveFlags(cleared, season, TRUE)
               /\ seasonLog' = [op |-> "admin", target |-> season,
                                set_current |-> TRUE, before |-> is_current]
               /\ UNCHANGED is_active
    /\ UNCHANGED <<seasonProcVars, nonSeasonVars>>

\* Season.objects.get(start_year=..., end_year=...): the matching rows
SeasonsNamed(name) ==
    IF Len(name) # 2 THEN {}
    ELSE {s \in Seasons : SeasonStartYear[s] = name[1] /\ SeasonEndYear[s] = name[2]}

\* a faulty handle that clears every flag before it looks the season up
CommandFlagsClearFirst(cur, name) ==
    IF Cardinality(SeasonsNamed(name)) = 1
    THEN SaveFlags(ClearAllCurrent(cur), CHOOSE s \in SeasonsNamed(name) : TRUE, TRUE)
    ELSE ClearAllCurrent(cur)

\* the flags after handle: split and int raise ValueError, get raises
\* DoesNotExist or MultipleObjectsReturned, all before the update statement
CommandFlags(cur, name) ==
    IF Cardinality(SeasonsNamed(name)) = 1
    THEN SaveFlags(ClearAllCurrent(cur), CHOOSE s \in SeasonsNamed(name) : TRUE, TRUE)
    ELSE cur

\* set_current_season Command.handle
CommandSetCurrent(name) ==
    /\ IF Len(name) # 2
       THEN /\ seasonLog' = [op |-> "command_invalid", target |-> 0,
                             set_current |-> FALSE, before |-> is_current]
            /\ is_current' = CommandFlags(is_current, name)
            /\ UNCHANGED is_active
       ELSE IF SeasonsNamed(name) = {}
       THEN /\ seasonLog' = [op |-> "command_not_found", target |-> 0,
                             set_current |-> FALSE, before |-> is_current]
            /\ is_current' = CommandFlags(is_current, name)
            /\ UNCHANGED is_active
       ELSE IF Cardinality(SeasonsNamed(name)) > 1
       THEN /\ seasonLog' = [op |-> "command_error", target |-> 0,
                             set_current |-> FALSE, before |-> is_current]
            /\ is_current' = CommandFlags(is_current, name)
            /\ UNCHANGED is_active
       ELSE LET season == CHOOSE s \in SeasonsNamed(name) : TRUE
            IN /\ is_current' = CommandFlags(is_current, name)
               /\ seasonLog' = [op |-> "command", target |-> season,
                                set_current |-> TRUE, before |-> is_current]
               /\ UNCHANGED is_active
    /\ UNCHANGED <<seasonProcVars, nonSeasonVars>>

Init == SeasonInit /\ SeasonProcInit /\ FixtureIdle /\ PredIdle /\ OtherIdle

Next ==
    \/ \E s \in Seasons, flag \in BOOLEAN, act \in BOOLEAN : SeasonSave(s, flag, act)
    \/ \E queryset \in SUBSET Seasons : AdminSetAsCurrent(queryset)
    \/ \E name \in SeasonNames : CommandSetCurrent(name)

Spec == Init /\ [][Next]_vars

\* C1: after a set-current operation on season B completes, B is the only
\* current season of B's scope and get_current_season for that scope returns
\* B; and in every state reached by sequential operations each scope (each
\* league, and the league-less seasons) has at most one current season.
C1_SetCurrentExclusive ==
    /\ seasonLog.set_current =>
           LET B == seasonLog.target IN
           /\ is_current[B]
           /\ \A s \in Seasons :
                  (s # B /\ SeasonLeague[s] = SeasonLeague[B]) => ~is_current[s]
           /\ GetCurrentSeason(is_current, is_active, SeasonLeague[B]) = {B}
    /\ \A sc \in Scopes :
           Cardinality({s \in Seasons : is_current[s] /\ SeasonLeague[s] = sc}) <= 1

\* C1 witness: a set-current operation has replaced another current season of
\* the same scope
C1_Witness ==
    /\ seasonLog.set_current
    /\ \E A \in Seasons :
           /\ A # seasonLog.target
           /\ SeasonLeague[A] = SeasonLeague[seasonLog.target]
           /\ seasonLog.before[A]

\* C3: setting a season of league L current leaves the is_current value of
\* every season of another league, and of every league-less season, as it was.
C3_OtherScopesKept ==
    (seasonLog.set_current /\ SeasonLeague[seasonLog.target] # NoLeague) =>
        \A s \in Seasons :
            SeasonLeague[s] # SeasonLeague[seasonLog.target]
                => is_current[s] = seasonLog.before[s]

(***************************************************************************)
(* Concurrent set-current operations: every database statement is a step.  *)
(***************************************************************************)
SeasonOps == {"save", "admin", "command"}

FirstStep(op) ==
    CASE op = "save" -> "save_clear"
      [] op = "admin" -> "admin_clear"
      [] op = "command" -> "command_clear"

\* the request starts and loads its Season instance (the command: line 26)
SBegin(p, op, s) ==
    /\ spc[p] = "idle"
    /\ \A q \in SeasonProcs : sinst[q] # s
    /\ op = "command" =>
           SeasonsNamed(<<SeasonStartYear[s], SeasonEndYear[s]>>) = {s}
    /\ spc' = [spc EXCEPT ![p] = FirstStep(op)]
    /\ sinst' = [sinst EXCEPT ![p] = s]
    /\ UNCHANGED <<seasonVars, nonSeasonVars>>

\* admin.py:124 / admin.py:130
SAdminClear(p) ==
    /\ spc[p] = "admin_clear"
    /\ is_current' = IF SeasonLeague[sinst[p]] # NoLeague
                     THEN ClearLeagueCurrent(is_current, SeasonLeague[sinst[p]])
                     ELSE ClearAllCurrent(is_current)
    /\ spc' = [spc EXCEPT ![p] = "save_clear"]
    /\ UNCHANGED <<is_active, seasonLog, sinst, nonSeasonVars>>

\* set_current_season.py:29
SCommandClear(p) ==
    /\ spc[p] = "command_clear"
    /\ is_current' = ClearAllCurrent(is_current)
    /\ spc' = [spc EXCEPT ![p] = "save_clear"]
    /\ UNCHANGED <<is_active, seasonLog, sinst, nonSeasonVars>>

\* models.py:80, the instance being current
SSaveClear(p) ==
    /\ spc[p] = "save_clear"
    /\ is_current' = ClearAllCurrent(is_current)
    /\ spc' = [spc EXCEPT ![p] = "save_write"]
    /\ UNCHANGED <<is_active, seasonLog, sinst, nonSeasonVars>>

\* models.py:81, the row written from the instance
SSaveWrite(p) ==
    /\ spc[p] = "save_write"
    /\ is_current' = [is_current EXCEPT ![sinst[p]] = TRUE]
    /\ spc' = [spc EXCEPT ![p] = "done"]
    /\ UNCHANGED <<is_active, seasonLog, sinst, nonSeasonVars>>

\* any state the sequential operations reach: at most one current season
SeasonConcInit ==
    /\ is_current \in {f \in [Seasons -> BOOLEAN] :
                          Cardinality({s \in Seasons : f[s]}) <= 1}
    /\ is_active = [s \in Seasons |-> TRUE]
    /\ seasonLog = NoSeasonOp
    /\ SeasonProcInit
    /\ FixtureIdle
    /\ PredIdle
    /\ OtherIdle

SeasonConcNext ==
    \/ \E p \in SeasonProcs, op \in SeasonOps, s \in Seasons : SBegin(p, op, s)
    \/ \E p \in SeasonProcs : SAdminClear(p)
    \/ \E p \in SeasonProcs : SCommandClear(p)
    \/ \E p \in SeasonProcs : SSaveClear(p)
    \/ \E p \in SeasonProcs : SSaveWrite(p)

SpecSeasonConc == SeasonConcInit /\ [][SeasonConcNext]_vars

\* C2: once two concurrent set-current operations on different seasons of the
\* same scope have both completed, that scope has at most one current season.
C2_ConcurrentSetExclusive ==
    (/\ \A p \in SeasonProcs : spc[p] = "done"
     /\ SeasonLeague[sinst[1]] = SeasonLeague[sinst[2]]) =>
        Cardinality({s \in Seasons : is_current[s]
                        /\ SeasonLeague[s] = SeasonLeague[sinst[1]]}) <= 1

(***************************************************************************)
(* Prediction submission: MatchPredictionForm, BulkPredictionForm and      *)
(* MatchPredict.save.                                                      *)
(***************************************************************************)

\* the status_long values the forms and MatchPredict.save refuse
ClosedStatusLong ==
    {"Match Finished", "In Progress", "First Half, Kick Off",
     "Second Half, 2nd Half Started", "Extra Time", "Penalty In Progress"}

\* match.status_long in [...]
StatusClosed(code) == StatusLong(code) \in ClosedStatusLong

\* match.date <= timezone.now()
DeadlinePassed(t) == Kickoff <= t

\* the outcome of a pair of scores (forms.py:84-89)
AutoResult(h, a) == IF h > a THEN "H" ELSE IF a > h THEN "A" ELSE "D"

\* a faulty MatchPredictionForm.clean that keeps the selected result
FormCleanedResultKept(result, h, a) == result

\* MatchPredictionForm.clean: cleaned_data['predicted_result']
FormCleanedResult(result, h, a) ==
    IF h # Null /\ a # Null
    THEN (IF result # AutoResult(h, a) THEN AutoResult(h, a) ELSE result)
    ELSE result

\* MatchPredictionForm.is_valid: predicted_result is a required field, then
\* the checks of clean()
FormValid(result, h, a, code, t) ==
    /\ result \in PREDICTION_CHOICES
    /\ ~((h # Null) # (a # Null))
    /\ ~StatusClosed(code)
    /\ ~DeadlinePassed(t)

\* a faulty BulkPredictionForm.clean that keeps the selected result
BulkCleanedResultKept(result, h, a) == result

\* BulkPredictionForm.clean: cleaned_data[f'{field_prefix}_result']
BulkCleanedResult(result, h, a) ==
    IF h # Null /\ a # Null
    THEN (IF h > a /\ result # "H" THEN "H"
          ELSE IF a > h /\ result # "A" THEN "A"
          ELSE IF h = a /\ result # "D" THEN "D"
          ELSE result)
    ELSE result

\* BulkPredictionForm.clean skips a match with no entry at all
BulkSkipped(result, h, a) == result = "" /\ h = Null /\ a = Null

\* BulkPredictionForm.is_valid
BulkValid(result, h, a, code, t) ==
    \/ BulkSkipped(result, h, a)
    \/ /\ ~StatusClosed(code)
       /\ ~DeadlinePassed(t)
       /\ result # ""

\* MatchPredict.save: the guard that raises ValueError
SaveRaises(row, code) == StatusClosed(code) /\ ~row.exists

\* the row after the prediction fields are written; points_earned is kept
\* on an update and defaults to 0 on a create
WriteRow(row, result, h, a) ==
    [exists |-> TRUE, predicted_result |-> result, predicted_home_score |-> h,
     predicted_away_score |-> a,
     points_earned |-> IF row.exists THEN row.points_earned ELSE 0]

\* timezone.now() advances
Tick ==
    /\ now < MaxTime
    /\ now' = now + 1
    /\ predLog' = NoPredOp
    /\ UNCHANGED <<status, home_goals, away_goals, pred, scoreLog, nonPredVars>>

\* the fixture's status is updated (FixtureAdmin, or the import of fixtures)
SetFixtureStatus(code) ==
    /\ status' = code
    /\ predLog' = NoPredOp
    /\ UNCHANGED <<now, home_goals, away_goals, pred, scoreLog, nonPredVars>>

\* a POST of MatchPredictionForm (instance = the existing row, if any):
\* is_valid(), then save()
MatchPredictionFormSubmit(result, h, a) ==
    LET ok == FormValid(result, h, a, status, now) /\ ~SaveRaises(pred, status)
    IN /\ pred' = IF ok THEN WriteRow(pred, FormCleanedResult(result, h, a), h, a)
                  ELSE pred
       /\ predLog' = PredOp("form", ok, result, h, a)
       /\ UNCHANGED <<fixtureVars, scoreLog, nonPredVars>>

\* a POST of BulkPredictionForm for the match: is_valid(), then save()
BulkPredictionFormSubmit(result, h, a) ==
    LET valid == BulkValid(result, h, a, status, now)
        cleaned == BulkCleanedResult(result, h, a)
        saved == valid /\ cleaned # "" /\ ~SaveRaises(pred, status)
    IN /\ pred' = IF saved THEN WriteRow(pred, cleaned, h, a) ELSE pred
       /\ predLog' = PredOp("bulk", saved, result, h, a)
       /\ UNCHANGED <<fixtureVars, scoreLog, nonPredVars>>

\* MatchPredict(...).save() of a new row, outside the forms
MatchPredictSaveNew(result, h, a) ==
    /\ ~pred.exists
    /\ LET ok == ~SaveRaises(pred, status)
       IN /\ pred' = IF ok THEN WriteRow(pred, result, h, a) ELSE pred
          /\ predLog' = PredOp("save_new", ok, result, h, a)
    /\ UNCHANGED <<fixtureVars, scoreLog, nonPredVars>>

PredictInit == SeasonIdle /\ FixtureIdle /\ PredIdle /\ OtherIdle

PredictNext ==
    \/ Tick
    \/ \E code \in StatusCodes : SetFixtureStatus(code)
    \/ \E result \in PREDICTION_CHOICES \cup {""}, h \in Scores, a \in Scores :
           MatchPredictionFormSubmit(result, h, a)
    \/ \E result \in PREDICTION_CHOICES \cup {""}, h \in Scores, a \in Scores :
           BulkPredictionFormSubmit(result, h, a)
    \/ \E result \in PREDICTION_CHOICES, h \in Scores, a \in Scores :
           MatchPredictSaveNew(result, h, a)

SpecPredict == PredictInit /\ [][PredictNext]_vars

\* C4: a prediction is created or edited through MatchPredictionForm,
\* BulkPredictionForm or MatchPredict.save of a new row only if the match is
\* in the Scheduled phase (TBD / NS) and the current time is strictly before
\* kickoff.
C4_OnlyScheduledBeforeKickoff ==
    (predLog.op \in {"form", "bulk", "save_new"} /\ predLog.accepted) =>
        (StatusPhase(status) = "Scheduled" /\ now < Kickoff)

\* C9: when a submission that supplies both predicted scores passes validation
\* (single-match form or bulk form), the persisted predicted_result is the
\* outcome derived from those scores, whatever result the user selected.
C9_ResultDerivedFromScores ==
    (/\ predLog.op \in {"form", "bulk"}
     /\ predLog.accepted
     /\ predLog.home # Null
     /\ predLog.away # Null) =>
        /\ pred.exists
        /\ pred.predicted_home_score = predLog.home
        /\ pred.predicted_away_score = predLog.away
        /\ pred.predicted_result =
               (IF predLog.home > predLog.away THEN "H"
                ELSE IF predLog.away > predLog.home THEN "A" ELSE "D")

\* C9 witness: an accepted submission whose selected result disagreed with
\* its two scores
C9_Witness ==
    /\ predLog.op \in {"form", "bulk"}
    /\ predLog.accepted
    /\ predLog.home = 1
    /\ predLog.away = 0
    /\ predLog.result = "A"

\* C10: a submission that supplies exactly one of the two predicted scores is
\* rejected (single-match form and bulk form alike).
C10_OneScoreRejected ==
    (/\ predLog.op \in {"form", "bulk"}
     /\ (predLog.home # Null) # (predLog.away # Null)) =>
        ~predLog.accepted

(***************************************************************************)
(* Prediction scorer: Fixture.is_finished, Fixture.result,                 *)
(* MatchPredict.is_correct and MatchPredict.calculate_points.              *)
(***************************************************************************)

\* Fixture.is_finished
IsFinished(code) == StatusLong(code) = "Match Finished"

\* a faulty Fixture.result that gives a level score to the home side
FixtureResultHomeOnLevel(code, hg, ag) ==
    IF ~IsFinished(code) \/ hg = Null \/ ag = Null THEN "None"
    ELSE IF hg >= ag THEN "H" ELSE "A"

\* Fixture.result ("None" is Python's None)
FixtureResult(code, hg, ag) ==
    IF ~IsFinished(code) \/ hg = Null \/ ag = Null THEN "None"
    ELSE IF hg > ag THEN "H"
    ELSE IF ag > hg THEN "A"
    ELSE "D"

\* MatchPredict.is_correct, as calculate_points uses it (None is falsy)
IsCorrect(row, code, hg, ag) ==
    IsFinished(code) /\ row.predicted_result = FixtureResult(code, hg, ag)

\* a faulty calculate_points that tests the result before the exact score
PointsResultFirst(row, code, hg, ag) ==
    IF IsCorrect(row, code, hg, ag) THEN 2
    ELSE IF row.predicted_home_score = hg /\ row.predicted_away_score = ag THEN 5
    ELSE 0

\* the points calculate_points computes for a finished match; None == None
\* holds in Python as Null = Null does here
Points(row, code, hg, ag) ==
    IF row.predicted_home_score = hg /\ row.predicted_away_score = ag THEN 5
    ELSE IF IsCorrect(row, code, hg, ag) THEN 2
    ELSE 0

\* MatchPredict.calculate_points on the stored prediction
CalculatePoints ==
    /\ pred.exists
    /\ IF ~IsFinished(status)
       THEN /\ scoreLog' = [op |-> "calculate_points", returned |-> 0,
                            before |-> pred.points_earned]
            /\ UNCHANGED pred
       ELSE LET points == Points(pred, status, home_goals, away_goals)
            IN /\ pred' = [pred EXCEPT !.points_earned = points]
               /\ scoreLog' = [op |-> "calculate_points", returned |-> points,
                               before |-> pred.points_earned]
    /\ UNCHANGED <<fixtureVars, predLog, nonPredVars>>

\* FixtureAdmin.calculate_points_for_predictions with the match selected
AdminCalculatePoints ==
    /\ pred.exists
    /\ IF ~IsFinished(status)
       THEN /\ scoreLog' = [op |-> "admin_skipped", returned |-> 0,
                            before |-> pred.points_earned]
            /\ UNCHANGED pred
       ELSE LET points == Points(pred, status, home_goals, away_goals)
            IN /\ pred' = [pred EXCEPT !.points_earned = points]
               /\ scoreLog' = [op |-> "admin", returned |-> points,
                               before |-> pred.points_earned]
    /\ UNCHANGED <<fixtureVars, predLog, nonPredVars>>

\* any stored match and any stored prediction of it
ScoreInit ==
    /\ SeasonIdle
    /\ now = 0
    /\ status \in StatusCodes
    /\ home_goals \in Scores
    /\ away_goals \in Scores
    /\ pred \in [exists : {TRUE}, predicted_result : PREDICTION_CHOICES,
                 predicted_home_score : Scores, predicted_away_score : Scores,
                 points_earned : {0, 2, 5}]
    /\ predLog = NoPredOp
    /\ scoreLog = NoScoreOp
    /\ preq = [p \in PredictProcs |-> IdleRequest]
    /\ OtherIdle

ScoreNext ==
    \/ CalculatePoints
    \/ AdminCalculatePoints

SpecScore == ScoreInit /\ [][ScoreNext]_vars

ScorerCalled == scoreLog.op \in {"calculate_points", "admin"}

GoalsPresent == home_goals # Null /\ away_goals # Null

ExactScore ==
    pred.predicted_home_score = home_goals /\ pred.predicted_away_score = away_goals

\* C6: on a finished match with both actual goals present calculate_points
\* returns and stores 5 when both predicted scores equal the actual scores,
\* otherwise 2 when predicted_result equals the derived result (H if home
\* goals > away goals, A if away goals > home goals, D otherwise), otherwise 0.
C6_PointsPolicy ==
    (ScorerCalled /\ IsFinished(status) /\ GoalsPresent) =>
        LET derived == IF home_goals > away_goals THEN "H"
                       ELSE IF away_goals > home_goals THEN "A" ELSE "D"
            expected == IF ExactScore THEN 5
                        ELSE IF pred.predicted_result = derived THEN 2 ELSE 0
        IN /\ scoreLog.returned = expected
           /\ pred.points_earned = expected
           /\ pred.points_earned \in {0, 2, 5}

\* C6 witness: an exact score with a contradicting predicted_result was scored
C6_Witness ==
    /\ ScorerCalled
    /\ IsFinished(status)
    /\ home_goals = 1
    /\ away_goals = 0
    /\ ExactScore
    /\ pred.predicted_result = "A"
    /\ scoreLog.returned = 5

\* C7: when the match is not finished, or is finished with an actual goal
\* value missing, calculate_points returns 0 and leaves points_earned as it was.
C7_NoScoreWithoutResult ==
    (scoreLog.op = "calculate_points" /\ (~IsFinished(status) \/ ~GoalsPresent)) =>
        /\ scoreLog.returned = 0
        /\ pred.points_earned = scoreLog.before

\* C8 as stated: on a finished match with equal goals the derived result is
\* Draw and every prediction whose pick is Draw gets 2 points.
C8_DrawPickGetsTwo ==
    (/\ ScorerCalled
     /\ IsFinished(status)
     /\ GoalsPresent
     /\ home_goals = away_goals
     /\ pred.predicted_result = "D") =>
        /\ FixtureResult(status, home_goals, away_goals) = "D"
        /\ scoreLog.returned = 2

\* C8 amended: on a finished match with equal goals (both present) the derived
\* result is Draw, and a prediction whose pick is Draw gets 2 points when its
\* predicted scores are absent or differ from the actual scores, and 5 when
\* they equal the actual scores.
C8_DrawPickGetsTwoUnlessExact ==
    (/\ ScorerCalled
     /\ IsFinished(status)
     /\ GoalsPresent
     /\ home_goals = away_goals) =>
        /\ FixtureResult(status, home_goals, away_goals) = "D"
        /\ pred.predicted_result = "D" =>
               /\ scoreLog.returned = (IF ExactScore THEN 5 ELSE 2)
               /\ pred.points_earned = scoreLog.returned

\* C8 witness: a Draw pick without predicted scores was scored 2 on a draw
C8_Witness ==
    /\ ScorerCalled
    /\ IsFinished(status)
    /\ GoalsPresent
    /\ home_goals = away_goals
    /\ pred.predicted_result = "D"
    /\ pred.predicted_home_score = Null
    /\ pred.predicted_away_score = Null
    /\ scoreLog.returned = 2

(***************************************************************************)
(* Concurrent submissions of one user for one match: make_prediction       *)
(* (lookup, is_valid, save) and BulkPredictionForm.save                    *)
(* (is_valid, update_or_create).  Every database statement is a step.      *)
(***************************************************************************)
PredictRoutes == {"form", "bulk"}

Finish(p, outcome) == [preq EXCEPT ![p].pc = "done", ![p].outcome = outcome]

Goto(p, pc) == [preq EXCEPT ![p].pc = pc]

concFrame == <<seasonVars, seasonProcVars, fixtureVars, predLog, scoreLog, otherVars>>

\* the POST arrives with its fields
PBegin(p, route, result, h, a) ==
    /\ preq[p].pc = "idle"
    /\ (h = Null) = (a = Null)
    /\ preq' = [preq EXCEPT ![p] =
                   [pc |-> IF route = "form" THEN "lookup" ELSE "bulk_valid",
                    route |-> route, result |-> result, home |-> h, away |-> a,
                    instance |-> FALSE, outcome |-> ""]]
    /\ UNCHANGED <<pred, concFrame>>

\* make_prediction: MatchPredict.objects.get(user=..., match=...)
PLookup(p) ==
    /\ preq[p].pc = "lookup"
    /\ preq' = [preq EXCEPT ![p].pc = "form_valid", ![p].instance = pred.exists]
    /\ UNCHANGED <<pred, concFrame>>

\* make_prediction: form.is_valid()
PFormValid(p) ==
    /\ preq[p].pc = "form_valid"
    /\ preq' = IF FormValid(preq[p].result, preq[p].home, preq[p].away, status, now)
               THEN Goto(p, "form_save")
               ELSE Finish(p, "invalid")
    /\ UNCHANGED <<pred, concFrame>>

\* make_prediction: form.save(), an UPDATE of the instance found by the
\* lookup, or an INSERT that the unique_together of MatchPredict can refuse
PFormSave(p) ==
    /\ preq[p].pc = "form_save"
    /\ LET r == preq[p]
           result == FormCleanedResult(r.result, r.home, r.away)
       IN IF ~r.instance /\ StatusClosed(status)
          THEN /\ preq' = Finish(p, "ValueError")
               /\ UNCHANGED pred
          ELSE IF ~r.instance /\ pred.exists
          THEN /\ preq' = Finish(p, "IntegrityError")
               /\ UNCHANGED pred
          ELSE /\ preq' = Finish(p, "ok")
               /\ pred' = WriteRow(pred, result, r.home, r.away)
    /\ UNCHANGED concFrame

\* bulk_predictions: bulk_form.is_valid()
PBulkValid(p) ==
    /\ preq[p].pc = "bulk_valid"
    /\ preq' = IF BulkValid(preq[p].result, preq[p].home, preq[p].away, status, now)
               THEN Goto(p, "bulk_get")
               ELSE Finish(p, "invalid")
    /\ UNCHANGED <<pred, concFrame>>

\* update_or_create: the get of its get_or_create
PBulkGet(p) ==
    /\ preq[p].pc = "bulk_get"
    /\ preq' = Goto(p, IF pred.exists THEN "bulk_update" ELSE "bulk_create")
    /\ UNCHANGED <<pred, concFrame>>

\* update_or_create: the create of its get_or_create; on an IntegrityError it
\* fetches the row that is there and goes on to update it
PBulkCreate(p) ==
    /\ preq[p].pc = "bulk_create"
    /\ LET r == preq[p]
       IN IF pred.exists
          THEN /\ preq' = Goto(p, "bulk_update")
               /\ UNCHANGED pred
          ELSE IF StatusClosed(status)
          THEN /\ preq' = Finish(p, "ValueError")
               /\ UNCHANGED pred
          ELSE /\ preq' = Finish(p, "ok")
               /\ pred' = WriteRow(pred, BulkCleanedResult(r.result, r.home, r.away),
                                   r.home, r.away)
    /\ UNCHANGED concFrame

\* update_or_create: the defaults written to the row that was found
PBulkUpdate(p) ==
    /\ preq[p].pc = "bulk_update"
    /\ LET r == preq[p]
       IN pred' = WriteRow(pred, BulkCleanedResult(r.result, r.home, r.away),
                           r.home, r.away)
    /\ preq' = Finish(p, "ok")
    /\ UNCHANGED concFrame

\* the match is open and the user has a prediction of it or none
PredictConcInit ==
    /\ SeasonIdle
    /\ FixtureIdle
    /\ pred \in {NoRow, WriteRow(NoRow, "H", Null, Null)}
    /\ predLog = NoPredOp
    /\ scoreLog = NoScoreOp
    /\ preq = [p \in PredictProcs |-> IdleRequest]
    /\ OtherIdle

PredictConcNext ==
    \/ \E p \in PredictProcs, route \in PredictRoutes,
          result \in PREDICTION_CHOICES, h \in Scores, a \in Scores :
           PBegin(p, route, result, h, a)
    \/ \E p \in PredictProcs : PLookup(p)
    \/ \E p \in PredictProcs : PFormValid(p)
    \/ \E p \in PredictProcs : PFormSave(p)
    \/ \E p \in PredictProcs : PBulkValid(p)
    \/ \E p \in PredictProcs : PBulkGet(p)
    \/ \E p \in PredictProcs : PBulkCreate(p)
    \/ \E p \in PredictProcs : PBulkUpdate(p)

SpecPredictConc == PredictConcInit /\ [][PredictConcNext]_vars

\* C5: once two concurrent submissions of the user for the match have both
\* ended, the (user, match) prediction row exists and neither submission has
\* ended in a failure.
C5_AtomicUpsert ==
    (\A p \in PredictProcs : preq[p].pc = "done") =>
        /\ pred.exists
        /\ \A p \in PredictProcs : preq[p].outcome = "ok"

(***************************************************************************)
(* Membership/profile aggregator: GroupMembership.update_stats,            *)
(* UserProfile.update_stats and the percentage properties.                 *)
(***************************************************************************)
\* the statuses and the score pairs the aggregator's matches and predictions
\* range over: no scores, a draw, a home win, an away win
StatStatuses == {"NS", "FT"}
GoalPairs == {<<Null, Null>>, <<0, 0>>, <<1, 0>>, <<0, 1>>}

\* the league sets of the group: match 2 is in scope of the second only
GroupLeagueSets == {{"L1"}, {"L1", "L2"}}

\* any stored prediction of a match; a finished match was scored
StatRows(code, hg, ag) ==
    {NoRow} \cup
    {[exists |-> TRUE, predicted_result |-> r, predicted_home_score |-> s[1],
      predicted_away_score |-> s[2],
      points_earned |-> IF IsFinished(code)
                        THEN Points([predicted_result |-> r,
                                     predicted_home_score |-> s[1],
                                     predicted_away_score |-> s[2]], code, hg, ag)
                        ELSE 0] : r \in PREDICTION_CHOICES, s \in GoalPairs}

StatEntries ==
    UNION {{[status |-> c, home_goals |-> g[1], away_goals |-> g[2], p |-> row] :
               row \in StatRows(c, g[1], g[2])} : c \in StatStatuses, g \in GoalPairs}

\* MatchPredict.objects.filter(user, match__league__in=group_leagues,
\*                             match__status_long='Match Finished')
MembershipPredictions(bk, leagues) ==
    {m \in StatMatches : /\ bk[m].p.exists
                         /\ MatchLeague[m] \in leagues
                         /\ StatusLong(bk[m].status) = "Match Finished"}

\* MatchPredict.objects.filter(user, match__status_long='finished')
ProfilePredictions(bk) ==
    {m \in StatMatches : bk[m].p.exists /\ StatusLong(bk[m].status) = "finished"}

\* prediction.is_correct of the prediction on match m
EntryCorrect(bk, m) ==
    IsCorrect(bk[m].p, bk[m].status, bk[m].home_goals, bk[m].away_goals)

\* the exact-score test of update_stats; None == None holds in Python
EntryExact(bk, m) ==
    /\ bk[m].p.predicted_home_score = bk[m].home_goals
    /\ bk[m].p.predicted_away_score = bk[m].away_goals

RECURSIVE SumPointsEarned(_, _)
SumPointsEarned(bk, set) ==
    IF set = {} THEN 0
    ELSE LET m == CHOOSE x \in set : TRUE
         IN bk[m].p.points_earned + SumPointsEarned(bk, set \ {m})

\* a faulty update_stats that counts the correct predictions of every league
MembershipStatsCorrectUnscoped(bk, leagues) ==
    LET predictions == MembershipPredictions(bk, leagues)
        exact == {m \in predictions : EntryExact(bk, m)}
        outcome == {m \in predictions : ~EntryExact(bk, m) /\ EntryCorrect(bk, m)}
    IN [total_predictions |-> Cardinality(predictions),
        correct_predictions |->
            Cardinality({m \in StatMatches : bk[m].p.exists /\ EntryCorrect(bk, m)}),
        exact_predictions |-> Cardinality(exact),
        total_points |-> 5 * Cardinality(exact) + 2 * Cardinality(outcome)]

\* the four statistics GroupMembership.update_stats computes
MembershipStats(bk, leagues) ==
    LET predictions == MembershipPredictions(bk, leagues)
        exact == {m \in predictions : EntryExact(bk, m)}
        outcome == {m \in predictions : ~EntryExact(bk, m) /\ EntryCorrect(bk, m)}
    IN [total_predictions |-> Cardinality(predictions),
        correct_predictions |-> Cardinality({m \in predictions : EntryCorrect(bk, m)}),
        exact_predictions |-> Cardinality(exact),
        total_points |-> 5 * Cardinality(exact) + 2 * Cardinality(outcome)]

\* the three statistics UserProfile.update_stats computes
ProfileStats(bk) ==
    LET predictions == ProfilePredictions(bk)
    IN [total_predictions |-> Cardinality(predictions),
        correct_predictions |-> Cardinality({m \in predictions : EntryCorrect(bk, m)}),
        total_points |-> SumPointsEarned(bk, predictions)]

\* GroupMembership.update_stats
MembershipUpdateStats ==
    /\ member' = MembershipStats(book, group_leagues)
    /\ statLog' = "membership"
    /\ UNCHANGED <<book, group_leagues, profile, ureq>>
    /\ UNCHANGED nonStatVars

\* UserProfile.update_stats
ProfileUpdateStats ==
    /\ profile' = ProfileStats(book)
    /\ statLog' = "profile"
    /\ UNCHANGED <<book, group_leagues, member, ureq>>
    /\ UNCHANGED nonStatVars

\* a scheduled match is stored as finished with its goals
FinishFixture(m, g) ==
    /\ book[m].status = "NS"
    /\ book' = [book EXCEPT ![m].status = "FT", ![m].home_goals = g[1],
                            ![m].away_goals = g[2]]
    /\ statLog' = "fixture"
    /\ UNCHANGED <<group_leagues, member, profile, ureq>>
    /\ UNCHANGED nonStatVars

\* any stored matches and predictions of the user, any league set of the group
StatsInit ==
    /\ SeasonIdle
    /\ FixtureIdle
    /\ PredIdle
    /\ TableIdle
    /\ GroupIdle
    /\ ExtraIdle
    /\ book \in [StatMatches -> StatEntries]
    /\ group_leagues \in GroupLeagueSets
    /\ member = NoStats
    /\ profile = NoProfileStats
    /\ statLog = "none"
    /\ ureq = [p \in StatProcs |-> IdleStatRequest]

StatsNext ==
    \/ MembershipUpdateStats
    \/ ProfileUpdateStats
    \/ \E m \in StatMatches, g \in GoalPairs : FinishFixture(m, g)

SpecStats == StatsInit /\ [][StatsNext]_vars
\* round(n / d, 0) of Python: the nearest integer, a tie to the even one
RoundHalfEven(n, d) ==
    LET q == n \div d
        r == n % d
    IN IF 2 * r < d THEN q
       ELSE IF 2 * r > d THEN q + 1
       ELSE IF q % 2 = 0 THEN q ELSE q + 1

\* GroupMembership.accuracy_percentage, in hundredths of a percent:
\* round((correct / total) * 100, 2)
AccuracyPercentage(row) ==
    IF row.total_predictions = 0 THEN 0
    ELSE RoundHalfEven(row.correct_predictions * 10000, row.total_predictions)

\* GroupMembership.exact_score_percentage, in hundredths of a percent
ExactScorePercentage(row) ==
    IF row.total_predictions = 0 THEN 0
    ELSE RoundHalfEven(row.exact_predictions * 10000, row.total_predictions)

\* the largest total the percentage properties are compared over
MaxTotal == 4

\* the user's predictions on finished matches in the group's leagues
FinishedInGroup ==
    {m \in StatMatches : /\ book[m].p.exists
                         /\ MatchLeague[m] \in group_leagues
                         /\ IsFinished(book[m].status)}

\* the user's predictions on finished matches
FinishedOfUser == {m \in StatMatches : book[m].p.exists /\ IsFinished(book[m].status)}

ActualPresent(m) == book[m].home_goals # Null /\ book[m].away_goals # Null

\* the two predicted scores equal the two actual scores
ActualExact(m) ==
    /\ ActualPresent(m)
    /\ book[m].p.predicted_home_score = book[m].home_goals
    /\ book[m].p.predicted_away_score = book[m].away_goals

\* the predicted result equals the result of the match
ActualCorrect(m) ==
    /\ ActualPresent(m)
    /\ book[m].p.predicted_result =
           (IF book[m].home_goals > book[m].away_goals THEN "H"
            ELSE IF book[m].away_goals > book[m].home_goals THEN "A" ELSE "D")

\* the score of the scoring policy: 5 exact, 2 correct outcome only, 0 otherwise
PolicyScore(m) == IF ActualExact(m) THEN 5 ELSE IF ActualCorrect(m) THEN 2 ELSE 0

RECURSIVE SumPolicyScore(_)
SumPolicyScore(set) ==
    IF set = {} THEN 0
    ELSE LET m == CHOOSE x \in set : TRUE
         IN PolicyScore(m) + SumPolicyScore(set \ {m})

\* C11: after GroupMembership.update_stats, over the member's predictions on
\* finished matches in the group's leagues, total_predictions is their count,
\* correct_predictions counts those whose predicted result equals the match
\* result, exact_predictions counts those whose two predicted scores equal the
\* actual scores, and total_points is the sum of the policy scores (5 exact,
\* 2 correct outcome only, 0 otherwise).
C11_MembershipStatsPolicy ==
    statLog = "membership" =>
        /\ member.total_predictions = Cardinality(FinishedInGroup)
        /\ member.correct_predictions =
               Cardinality({m \in FinishedInGroup : ActualCorrect(m)})
        /\ member.exact_predictions =
               Cardinality({m \in FinishedInGroup : ActualExact(m)})
        /\ member.total_points = SumPolicyScore(FinishedInGroup)

\* C13: after UserProfile.update_stats, total_predictions is the number of the
\* user's predictions whose match has status_long 'Match Finished', and
\* correct_predictions and total_points are taken over that same set.
C13_ProfileCountsFinished ==
    statLog = "profile" =>
        /\ profile.total_predictions = Cardinality(FinishedOfUser)
        /\ profile.correct_predictions =
               Cardinality({m \in FinishedOfUser : ActualCorrect(m)})
        /\ profile.total_points = SumPointsEarned(book, FinishedOfUser)

\* C14: after any sequence of update_stats calls correct_predictions and
\* exact_predictions never exceed total_predictions, accuracy_percentage and
\* exact_score_percentage lie in [0, 100] (0..10000 hundredths) and are 0 when
\* total_predictions is 0; and for every fixed total both percentages are
\* non-decreasing in the number of correct (exact) predictions.
C14_PercentagesBounded ==
    /\ member.correct_predictions <= member.total_predictions
    /\ member.exact_predictions <= member.total_predictions
    /\ AccuracyPercentage(member) \in 0..10000
    /\ ExactScorePercentage(member) \in 0..10000
    /\ member.total_predictions = 0 =>
           AccuracyPercentage(member) = 0 /\ ExactScorePercentage(member) = 0
    /\ \A total \in 0..MaxTotal : \A c \in 0..total : \A d \in c..total :
           /\ AccuracyPercentage([member EXCEPT !.total_predictions = total,
                                                !.correct_predictions = c])
                  <= AccuracyPercentage([member EXCEPT !.total_predictions = total,
                                                       !.correct_predictions = d])
           /\ ExactScorePercentage([member EXCEPT !.total_predictions = total,
                                                  !.exact_predictions = c])
                  <= ExactScorePercentage([member EXCEPT !.total_predictions = total,
                                                         !.exact_predictions = d])

\* C14 witness: a recompute left one correct prediction out of two, 50 percent,
\* after an earlier recompute had left one out of one
C14_Witness ==
    /\ statLog = "membership"
    /\ member.total_predictions = 2
    /\ member.correct_predictions = 1
    /\ AccuracyPercentage(member) = 5000
    /\ ExactScorePercentage(member) \in {0, 5000}
(***************************************************************************)
(* Concurrent recomputes of one membership: two requests of group_detail   *)
(* call update_stats on the same GroupMembership row.  Every database      *)
(* statement is a step; predictions, matches and group leagues stay as     *)
(* they are.                                                               *)
(***************************************************************************)
\* a faulty save that adds the recomputed statistics to the stored ones
SavedStatsAdded(row, inst) ==
    [total_points |-> row.total_points + inst.total_points,
     total_predictions |-> row.total_predictions + inst.total_predictions,
     correct_predictions |-> row.correct_predictions + inst.correct_predictions,
     exact_predictions |-> row.exact_predictions + inst.exact_predictions]

\* self.save(): the row takes every statistic of the instance
SavedStats(row, inst) == inst

statConcFrame == <<nonStatVars, book, group_leagues, profile>>

InFlight(p) == ureq[p].pc \notin {"idle", "done"}

\* group_detail loads the membership row of the leaderboard
UBegin(p) ==
    /\ ureq[p].pc = "idle"
    /\ ureq' = [ureq EXCEPT ![p] =
                   [pc |-> "count", inst |-> member,
                    overlapped |-> \E q \in StatProcs \ {p} : InFlight(q)]]
    /\ statLog' = "step"
    /\ UNCHANGED <<member, statConcFrame>>

\* self.total_predictions = predictions.count()
UCount(p) ==
    /\ ureq[p].pc = "count"
    /\ ureq' = [ureq EXCEPT ![p].pc = "list",
                   ![p].inst.total_predictions =
                       Cardinality(MembershipPredictions(book, group_leagues))]
    /\ statLog' = "step"
    /\ UNCHANGED <<member, statConcFrame>>

\* the two loops over the evaluated queryset
UList(p) ==
    /\ ureq[p].pc = "list"
    /\ LET stats == MembershipStats(book, group_leagues)
       IN ureq' = [ureq EXCEPT ![p].pc = "save",
                      ![p].inst.correct_predictions = stats.correct_predictions,
                      ![p].inst.exact_predictions = stats.exact_predictions,
                      ![p].inst.total_points = stats.total_points]
    /\ statLog' = "step"
    /\ UNCHANGED <<member, statConcFrame>>

\* self.save()
USave(p) ==
    /\ ureq[p].pc = "save"
    /\ member' = SavedStats(member, ureq[p].inst)
    /\ ureq' = [ureq EXCEPT ![p].pc = "done"]
    /\ statLog' = "save"
    /\ UNCHANGED statConcFrame

\* finished matches of the group's leagues, each with a prediction of the user
StatsConcInit ==
    /\ SeasonIdle
    /\ FixtureIdle
    /\ PredIdle
    /\ TableIdle
    /\ GroupIdle
    /\ ExtraIdle
    /\ book \in [StatMatches -> {e \in StatEntries : e.status = "FT" /\ e.p.exists}]
    /\ group_leagues = {"L1", "L2"}
    /\ member = NoStats
    /\ profile = NoProfileStats
    /\ statLog = "none"
    /\ ureq = [p \in StatProcs |-> IdleStatRequest]

StatsConcNext ==
    \E p \in StatProcs :
        \/ UBegin(p)
        \/ UCount(p)
        \/ UList(p)
        \/ USave(p)

SpecStatsConc == StatsConcInit /\ [][StatsConcNext]_vars

\* C12: with predictions, matches and group leagues unchanged, every recompute
\* that completes leaves the four statistics a single recompute leaves, so a
\* second recompute in a row leaves them identical to the first, and two
\* interleaved recomputes end in the statistics of a single one.
C12_RecomputeIdempotent ==
    /\ statLog = "save" => member = MembershipStats(book, group_leagues)
    /\ (\A p \in StatProcs : ureq[p].pc = "done") =>
           /\ member = MembershipStats(book, group_leagues)
           /\ \A p \in StatProcs : ureq[p].inst = member

\* C12 witness: two recomputes that overlapped are both done and left two
\* predictions, one of them exact
C12_Witness ==
    /\ \A p \in StatProcs : ureq[p].pc = "done"
    /\ \E p \in StatProcs : ureq[p].overlapped
    /\ member.total_predictions = 2
    /\ member.exact_predictions = 1
    /\ member.total_points \in {5, 7}
(***************************************************************************)
(* Standings calculator: league_detail.                                    *)
(***************************************************************************)
ResultStatuses == {"scheduled", "finished"}

\* the score pairs of a stored match: no scores, a draw, a home win, an away
\* win, one score missing
ScorePairs == {<<Null, Null>>, <<1, 1>>, <<2, 0>>, <<0, 1>>, <<1, Null>>}

\* home and away team of a stored match; T3 is a team of the other league
Pairings == {<<"T1", "T2">>, <<"T2", "T1">>, <<"T1", "T3">>, <<"T3", "T2">>}

ResultRows ==
    {[home_team |-> pr[1], away_team |-> pr[2], league |-> l, season |-> s,
      status |-> st, home_score |-> sc[1], away_score |-> sc[2]] :
         pr \in Pairings, l \in Leagues, s \in TableSeasons,
         st \in ResultStatuses, sc \in ScorePairs}

\* MatchResult.match_date: the match with the larger id is the later one
MatchDate(m) == m

\* Team.objects.filter(league=league)
LeagueTeams(league) == SelectSeq(TeamOrder, LAMBDA team : TeamLeague[team] = league)

\* MatchResult.objects.filter(home_team=team, league, season, status='finished')
HomeMatches(res, team, league, season) ==
    {m \in ResultIds : /\ res[m].home_team = team
                       /\ res[m].league = league
                       /\ res[m].season = season
                       /\ res[m].status = "finished"}

\* a faulty away_matches that leaves out the status filter
AwayMatchesAnyStatus(res, team, league, season) ==
    {m \in ResultIds : /\ res[m].away_team = team
                       /\ res[m].league = league
                       /\ res[m].season = season}

\* MatchResult.objects.filter(away_team=team, league, season, status='finished')
AwayMatches(res, team, league, season) ==
    {m \in ResultIds : /\ res[m].away_team = team
                       /\ res[m].league = league
                       /\ res[m].season = season
                       /\ res[m].status = "finished"}

\* the filters home_score__gt=F('away_score') and home_score=F('away_score'):
\* a comparison with NULL selects no row
SqlGreater(a, b) == a # Null /\ b # Null /\ a > b
SqlEqual(a, b) == a # Null /\ b # Null /\ a = b

\* the goal loops: a score that is None adds nothing
RECURSIVE SumScores(_, _, _)
SumScores(res, set, side) ==
    IF set = {} THEN 0
    ELSE LET m == CHOOSE x \in set : TRUE
             score == IF side = "home" THEN res[m].home_score ELSE res[m].away_score
         IN (IF score # Null THEN score ELSE 0) + SumScores(res, set \ {m}, side)

\* all_team_matches.sort(key=match_date, reverse=True)
RECURSIVE ByDateDesc(_)
ByDateDesc(set) ==
    IF set = {} THEN << >>
    ELSE LET m == CHOOSE x \in set : \A y \in set : MatchDate(y) <= MatchDate(x)
         IN <<m>> \o ByDateDesc(set \ {m})

\* all_team_matches[:5]
LastFive(seq) == SubSeq(seq, 1, IF Len(seq) < 5 THEN Len(seq) ELSE 5)

TeamLastFive(res, team, league, season) ==
    LastFive(ByDateDesc(HomeMatches(res, team, league, season)
                        \cup AwayMatches(res, team, league, season)))

\* the form loop compares the two scores in Python: with a score that is None
\* the comparison raises TypeError
FormRaises(res, team, league, season) ==
    LET last == TeamLastFive(res, team, league, season)
    IN \E i \in 1..Len(last) :
           res[last[i]].home_score = Null \/ res[last[i]].away_score = Null

FormLetter(res, m, team) ==
    LET own == IF res[m].home_team = team THEN res[m].home_score ELSE res[m].away_score
        other == IF res[m].home_team = team THEN res[m].away_score
                 ELSE res[m].home_score
    IN IF own > other THEN "W" ELSE IF own < other THEN "L" ELSE "D"

\* the row of one team
TeamRow(res, team, league, season) ==
    LET home_matches == HomeMatches(res, team, league, season)
        away_matches == AwayMatches(res, team, league, season)
        played == Cardinality(home_matches) + Cardinality(away_matches)
        wins == Cardinality({m \in home_matches :
                                SqlGreater(res[m].home_score, res[m].away_score)})
                + Cardinality({m \in away_matches :
                                  SqlGreater(res[m].away_score, res[m].home_score)})
        draws == Cardinality({m \in home_matches :
                                 SqlEqual(res[m].home_score, res[m].away_score)})
                 + Cardinality({m \in away_matches :
                                   SqlEqual(res[m].away_score, res[m].home_score)})
        goals_for == SumScores(res, home_matches, "home")
                     + SumScores(res, away_matches, "away")
        goals_against == SumScores(res, home_matches, "away")
                         + SumScores(res, away_matches, "home")
        last == TeamLastFive(res, team, league, season)
    IN [team |-> team, played |-> played, wins |-> wins, draws |-> draws,
        losses |-> played - wins - draws, goals_for |-> goals_for,
        goals_against |-> goals_against,
        goal_difference |-> goals_for - goals_against,
        points |-> wins * 3 + draws,
        form |-> [i \in 1..Len(last) |-> FormLetter(res, last[i], team)]]

\* the sort key (-points, -goal_difference, -goals_for)
RowBefore(a, b) ==
    \/ a.points > b.points
    \/ a.points = b.points /\ a.goal_difference > b.goal_difference
    \/ /\ a.points = b.points
       /\ a.goal_difference = b.goal_difference
       /\ a.goals_for > b.goals_for

RECURSIVE InsertRow(_, _)
InsertRow(seq, row) ==
    IF seq = << >> THEN <<row>>
    ELSE IF RowBefore(row, Head(seq)) THEN <<row>> \o seq
    ELSE <<Head(seq)>> \o InsertRow(Tail(seq), row)

\* standings.sort(...): list.sort is stable
RECURSIVE SortRows(_)
SortRows(seq) ==
    IF seq = << >> THEN << >>
    ELSE InsertRow(SortRows(SubSeq(seq, 1, Len(seq) - 1)), seq[Len(seq)])

Standings(res, league, season) ==
    LET teams == LeagueTeams(league)
    IN SortRows([i \in 1..Len(teams) |-> TeamRow(res, teams[i], league, season)])

\* league_detail for a league and the selected season
LeagueDetail(league, season) ==
    /\ LET teams == LeagueTeams(league)
       IN IF \E i \in 1..Len(teams) : FormRaises(results, teams[i], league, season)
          THEN table' = [op |-> "league_detail", outcome |-> "TypeError",
                         league |-> league, season |-> season, rows |-> << >>]
          ELSE table' = [op |-> "league_detail", outcome |-> "ok",
                         league |-> league, season |-> season,
                         rows |-> Standings(results, league, season)]
    /\ UNCHANGED <<results, nonTableVars>>

\* a scheduled match is stored as finished with its scores
FinishResult(m, sc) ==
    /\ results[m].status = "scheduled"
    /\ results' = [results EXCEPT ![m].status = "finished", ![m].home_score = sc[1],
                                  ![m].away_score = sc[2]]
    /\ table' = NoTable
    /\ UNCHANGED nonTableVars

\* any two stored matches
TableInit ==
    /\ SeasonIdle
    /\ FixtureIdle
    /\ PredIdle
    /\ StatIdle
    /\ GroupIdle
    /\ ExtraIdle
    /\ results \in [ResultIds -> ResultRows]
    /\ table = NoTable

TableNext ==
    \/ \E l \in Leagues, s \in TableSeasons : LeagueDetail(l, s)
    \/ \E m \in ResultIds, sc \in ScorePairs : FinishResult(m, sc)

SpecTable == TableInit /\ [][TableNext]_vars
\* the finished matches of the requested league and season
TableMatches ==
    {m \in ResultIds : /\ results[m].league = table.league
                       /\ results[m].season = table.season
                       /\ results[m].status = "finished"}

\* the finished matches of the requested league and season of one team
MatchesOf(team) ==
    {m \in TableMatches : results[m].home_team = team \/ results[m].away_team = team}

OwnScore(m, team) ==
    IF results[m].home_team = team THEN results[m].home_score ELSE results[m].away_score

OpponentScore(m, team) ==
    IF results[m].home_team = team THEN results[m].away_score ELSE results[m].home_score

ScoresPresent(m) == results[m].home_score # Null /\ results[m].away_score # Null

RECURSIVE SumOwn(_, _)
SumOwn(set, team) ==
    IF set = {} THEN 0
    ELSE LET m == CHOOSE x \in set : TRUE
         IN (IF OwnScore(m, team) # Null THEN OwnScore(m, team) ELSE 0)
            + SumOwn(set \ {m}, team)

RECURSIVE SumOpponent(_, _)
SumOpponent(set, team) ==
    IF set = {} THEN 0
    ELSE LET m == CHOOSE x \in set : TRUE
         IN (IF OpponentScore(m, team) # Null THEN OpponentScore(m, team) ELSE 0)
            + SumOpponent(set \ {m}, team)

\* the row has the values the claim gives for its team
RowAsClaimed(row) ==
    LET mine == MatchesOf(row.team)
        wins == Cardinality({m \in mine : /\ ScoresPresent(m)
                                          /\ OwnScore(m, row.team) >
                                                 OpponentScore(m, row.team)})
        draws == Cardinality({m \in mine : /\ ScoresPresent(m)
                                           /\ OwnScore(m, row.team) =
                                                  OpponentScore(m, row.team)})
    IN /\ row.played = Cardinality(mine)
       /\ row.wins = wins
       /\ row.draws = draws
       /\ row.losses = row.played - wins - draws
       /\ row.goals_for = SumOwn(mine, row.team)
       /\ row.goals_against = SumOpponent(mine, row.team)
       /\ row.goal_difference = row.goals_for - row.goals_against
       /\ row.points = 3 * wins + draws
       /\ mine = {} => /\ row.played = 0 /\ row.wins = 0 /\ row.draws = 0
                       /\ row.losses = 0 /\ row.goals_for = 0
                       /\ row.goals_against = 0 /\ row.goal_difference = 0
                       /\ row.points = 0

\* C15: the standings of a league and season contain one row for every team
\* of the league, computed only from that team's finished matches of that
\* league and season: played, wins, draws, losses = played - wins - draws,
\* goals for and against, goal difference and points = 3*wins + draws; a team
\* with no finished match gets an all-zero row.  Matches that are not
\* finished, or of another league or season, are outside MatchesOf and so
\* change no row.
C15_StandingsRows ==
    table.op = "league_detail" =>
        /\ table.outcome = "ok"
        /\ Len(table.rows) = Cardinality({t \in Teams : TeamLeague[t] = table.league})
        /\ \A t \in Teams : TeamLeague[t] = table.league =>
               \E i \in 1..Len(table.rows) : table.rows[i].team = t
        /\ \A i \in 1..Len(table.rows) : RowAsClaimed(table.rows[i])

RECURSIVE SumPoints(_)
SumPoints(rows) == IF rows = << >> THEN 0 ELSE Head(rows).points + SumPoints(Tail(rows))

\* C16: when the teams of every finished match of the league and season
\* belong to the league, the points of all standings rows sum to 3 times the
\* number of decisive matches plus 2 times the number of drawn matches.
C16_PointsSum ==
    (/\ table.op = "league_detail"
     /\ \A m \in TableMatches : /\ TeamLeague[results[m].home_team] = table.league
                                /\ TeamLeague[results[m].away_team] = table.league) =>
        /\ table.outcome = "ok"
        /\ SumPoints(table.rows) =
               3 * Cardinality({m \in TableMatches :
                                   /\ ScoresPresent(m)
                                   /\ results[m].home_score # results[m].away_score})
               + 2 * Cardinality({m \in TableMatches :
                                     /\ ScoresPresent(m)
                                     /\ results[m].home_score = results[m].away_score})
(***************************************************************************)
(* Groups and invitations: UserGroup.can_join, GroupInvitation.is_expired, *)
(* accept and decline, and the views join_group_view,                      *)
(* send_invitation_view, accept_invitation_view, decline_invitation_view   *)
(* and my_invitations_view.                                                *)
(***************************************************************************)
\* timedelta(days=30) of is_expired
ExpiryDays == 30

\* the clock advances by DayStep days up to MaxDay
DayStep == 15
MaxDay == 45

\* the GroupInvitation row of the group for a user
InvitationOf(u) == IF u \in Invitees THEN invitations[u] ELSE NoInvitation

\* GroupInvitation.is_expired
IsExpired(inv, t) == t > inv.created_at + ExpiryDays

\* UserGroup.can_join: the message it returns
CanJoin(ms, g, u) ==
    IF Cardinality(ms) >= g.max_members THEN "Group is full"
    ELSE IF u \in ms THEN "Already a member"
    ELSE "Can join"

\* a faulty decline that does not test the status
DeclineAllowedAlways(inv) == TRUE

\* the test of GroupInvitation.decline
DeclineAllowed(inv) == inv.status = "pending"

\* the record of an operation on behalf of user u, taken before it acts
GroupOp(op, method, u, ok, fault) ==
    [op |-> op, method |-> method, user |-> u, ok |-> ok, fault |-> fault,
     before |-> InvitationOf(u), was_member |-> u \in members,
     was_expired |-> InvitationOf(u).exists /\ IsExpired(InvitationOf(u), today)]

\* GroupInvitation.accept
DoAccept(u, op) ==
    IF invitations[u].status = "pending" /\ ~IsExpired(invitations[u], today)
    THEN IF CanJoin(members, group, u) = "Can join"
         THEN /\ members' = members \cup {u}
              /\ invitations' = [invitations EXCEPT ![u].status = "accepted"]
              /\ groupLog' = GroupOp(op, "accept", u, TRUE, FALSE)
         ELSE /\ groupLog' = GroupOp(op, "accept", u, FALSE, FALSE)
              /\ UNCHANGED <<members, invitations>>
    ELSE /\ groupLog' = GroupOp(op, "accept", u, FALSE, FALSE)
         /\ UNCHANGED <<members, invitations>>

\* GroupInvitation.decline
DoDecline(u, op) ==
    IF DeclineAllowed(invitations[u])
    THEN /\ invitations' = [invitations EXCEPT ![u].status = "declined"]
         /\ groupLog' = GroupOp(op, "decline", u, TRUE, FALSE)
         /\ UNCHANGED members
    ELSE /\ groupLog' = GroupOp(op, "decline", u, FALSE, FALSE)
         /\ UNCHANGED <<members, invitations>>

\* invitation.accept() called on a stored invitation
InvitationAccept(u) ==
    /\ invitations[u].exists
    /\ DoAccept(u, "accept")
    /\ UNCHANGED <<today, group, greq, nonGroupVars>>

\* invitation.decline() called on a stored invitation
InvitationDecline(u) ==
    /\ invitations[u].exists
    /\ DoDecline(u, "decline")
    /\ UNCHANGED <<today, group, greq, nonGroupVars>>

\* accept_invitation_view
AcceptInvitationView(u) ==
    /\ invitations[u].exists
    /\ IF invitations[u].status # "pending"
       THEN /\ groupLog' = GroupOp("accept_view", "", u, FALSE, FALSE)
            /\ UNCHANGED <<members, invitations>>
       ELSE IF IsExpired(invitations[u], today)
       THEN /\ invitations' = [invitations EXCEPT ![u].status = "expired"]
            /\ groupLog' = GroupOp("accept_view", "", u, FALSE, FALSE)
            /\ UNCHANGED members
       ELSE DoAccept(u, "accept_view")
    /\ UNCHANGED <<today, group, greq, nonGroupVars>>

\* decline_invitation_view
DeclineInvitationView(u) ==
    /\ invitations[u].exists
    /\ IF invitations[u].status # "pending"
       THEN /\ groupLog' = GroupOp("decline_view", "", u, FALSE, FALSE)
            /\ UNCHANGED <<members, invitations>>
       ELSE DoDecline(u, "decline_view")
    /\ UNCHANGED <<today, group, greq, nonGroupVars>>

\* my_invitations_view: a pending invitation that is expired is stored expired
MyInvitationsView(u) ==
    /\ IF /\ invitations[u].exists
          /\ invitations[u].status = "pending"
          /\ IsExpired(invitations[u], today)
       THEN invitations' = [invitations EXCEPT ![u].status = "expired"]
       ELSE UNCHANGED invitations
    /\ groupLog' = GroupOp("my_invitations", "", u, TRUE, FALSE)
    /\ UNCHANGED <<today, group, members, greq, nonGroupVars>>

\* join_group_view with the join code of the group
JoinGroupView(u) ==
    /\ IF u \in members
       THEN /\ groupLog' = GroupOp("join", "", u, FALSE, FALSE)
            /\ UNCHANGED members
       ELSE IF Cardinality(members) >= group.max_members
       THEN /\ groupLog' = GroupOp("join", "", u, FALSE, FALSE)
            /\ UNCHANGED members
       ELSE IF /\ group.is_private
               /\ ~(InvitationOf(u).exists /\ InvitationOf(u).status = "pending")
       THEN /\ groupLog' = GroupOp("join", "", u, FALSE, FALSE)
            /\ UNCHANGED members
       ELSE /\ members' = members \cup {u}
            /\ groupLog' = GroupOp("join", "", u, TRUE, FALSE)
    /\ UNCHANGED <<today, group, invitations, greq, nonGroupVars>>

\* send_invitation_view posted by the admin with the username of user u: the
\* form is built without an instance, so clean_invitee_username makes neither
\* of its group checks; invitation.save() inserts the row and the
\* unique_together of (group, invitee) raises IntegrityError for a second one
SendInvitationView(u) ==
    /\ Creator \in members
    /\ IF invitations[u].exists
       THEN /\ groupLog' = GroupOp("send", "", u, FALSE, TRUE)
            /\ UNCHANGED invitations
       ELSE /\ invitations' = [invitations EXCEPT ![u] =
                                  [exists |-> TRUE, status |-> "pending",
                                   created_at |-> today]]
            /\ groupLog' = GroupOp("send", "", u, TRUE, FALSE)
    /\ UNCHANGED <<today, group, members, greq, nonGroupVars>>

\* time passes
AdvanceDays ==
    /\ today + DayStep <= MaxDay
    /\ today' = today + DayStep
    /\ groupLog' = [NoGroupOp EXCEPT !.op = "tick"]
    /\ UNCHANGED <<group, members, invitations, greq, nonGroupVars>>

\* a new group, public or private, created by its admin
GroupInit ==
    /\ SeasonIdle
    /\ FixtureIdle
    /\ PredIdle
    /\ StatIdle
    /\ TableIdle
    /\ ExtraIdle
    /\ today = 0
    /\ group \in [is_private : BOOLEAN, max_members : {2, 3}]
    /\ members = {Creator}
    /\ invitations = [u \in Invitees |-> NoInvitation]
    /\ groupLog = NoGroupOp
    /\ greq = [p \in GroupProcs |-> IdleGroupRequest]

GroupNext ==
    \/ AdvanceDays
    \/ \E u \in Users : JoinGroupView(u)
    \/ \E u \in Invitees :
           \/ SendInvitationView(u)
           \/ InvitationAccept(u)
           \/ InvitationDecline(u)
           \/ AcceptInvitationView(u)
           \/ DeclineInvitationView(u)
           \/ MyInvitationsView(u)

SpecGroup == GroupInit /\ [][GroupNext]_vars
\* the invitation of the user of the last operation, and whether it changed
LoggedInvitation == InvitationOf(groupLog.user)

MembershipCreated == groupLog.user \in members /\ ~groupLog.was_member

\* C17: accept() and decline() on an invitation that is not pending, or that
\* is stored pending but is older than 30 days, return (False, message) and
\* change nothing: the status stays and no membership is created.
C17_StaleInvitationRefused ==
    (/\ groupLog.method \in {"accept", "decline"}
     /\ (groupLog.before.status # "pending" \/ groupLog.was_expired)) =>
        /\ ~groupLog.ok
        /\ LoggedInvitation = groupLog.before
        /\ ~MembershipCreated

\* C18: over accept, decline, expiry-check and join operations (and sending)
\* the status of a stored invitation only moves from pending to accepted,
\* declined or expired, so these three are terminal; and an invitation
\* becomes accepted only together with the creation of the invitee's
\* membership in the group.
C18_StatusOnlyLeavesPending ==
    (groupLog.op \notin {"none", "tick"} /\ groupLog.before.exists) =>
        /\ LoggedInvitation.exists
        /\ LoggedInvitation.created_at = groupLog.before.created_at
        /\ LoggedInvitation.status # groupLog.before.status =>
               /\ groupLog.before.status = "pending"
               /\ LoggedInvitation.status \in {"accepted", "declined", "expired"}
               /\ LoggedInvitation.status = "accepted" => MembershipCreated

\* C18 witness: accept_invitation_view moved a pending invitation to accepted
\* and created the membership, after time had passed
C18_Witness ==
    /\ groupLog.op = "accept_view"
    /\ groupLog.before.status = "pending"
    /\ LoggedInvitation.status = "accepted"
    /\ MembershipCreated
    /\ today > 0

\* C19: a user becomes a member of a private group through join-by-code only
\* if they hold an invitation to it that is pending and not expired; otherwise
\* the join is refused and no membership is created.
C19_PrivateJoinNeedsLiveInvitation ==
    (groupLog.op = "join" /\ group.is_private /\ ~groupLog.was_member) =>
        IF /\ groupLog.before.exists
           /\ groupLog.before.status = "pending"
           /\ ~groupLog.was_expired
        THEN TRUE
        ELSE ~groupLog.ok /\ ~MembershipCreated

\* C20: sending an invitation to a user who is already a member, or who
\* already has a pending invitation, is refused without a thrown fault and
\* creates no invitation row; inviting again a user whose earlier invitation
\* was declined or expired does not end in a thrown fault either.
C20_SendRefusedWithoutFault ==
    groupLog.op = "send" =>
        /\ (groupLog.was_member
            \/ (groupLog.before.exists /\ groupLog.before.status = "pending")) =>
               /\ ~groupLog.ok
               /\ ~groupLog.fault
               /\ LoggedInvitation = groupLog.before
        /\ (groupLog.before.exists
            /\ groupLog.before.status \in {"declined", "expired"}) => ~groupLog.fault
RECURSIVE SumWins(_)
SumWins(rows) == IF rows = << >> THEN 0 ELSE Head(rows).wins + SumWins(Tail(rows))

RECURSIVE SumLosses(_)
SumLosses(rows) == IF rows = << >> THEN 0 ELSE Head(rows).losses + SumLosses(Tail(rows))

RECURSIVE SumGoalDifference(_)
SumGoalDifference(rows) ==
    IF rows = << >> THEN 0
    ELSE Head(rows).goal_difference + SumGoalDifference(Tail(rows))

TableTeamsInLeague ==
    \A m \in TableMatches : /\ TeamLeague[results[m].home_team] = table.league
                            /\ TeamLeague[results[m].away_team] = table.league

\* C28: in the standings of a league and season whose teams all belong to the
\* league, the wins of all rows sum to the losses of all rows and the goal
\* differences sum to 0, for every set of finished matches, those with
\* missing goal values included.
C28_WinsEqualLosses ==
    (table.op = "league_detail" /\ TableTeamsInLeague) =>
        /\ table.outcome = "ok"
        /\ SumWins(table.rows) = SumLosses(table.rows)
        /\ SumGoalDifference(table.rows) = 0
\* C27: a member of the group never holds a pending invitation to it; a join
\* of a private group by join code moves the pending invitation that
\* authorised it out of the pending state.
C27_MemberHoldsNoPendingInvitation ==
    /\ \A u \in Invitees :
           u \in members => ~(invitations[u].exists /\ invitations[u].status = "pending")
    /\ (groupLog.op = "join" /\ groupLog.ok /\ group.is_private) =>
           LoggedInvitation.status # "pending"
(***************************************************************************)
(* Concurrent requests for one group: join_group_view and                  *)
(* accept_invitation_view.  Every database statement is a step; no view    *)
(* takes a lock or runs in a transaction.                                  *)
(***************************************************************************)
GroupRoutes == {"join", "accept"}

groupConcFrame == <<today, group, groupLog, nonGroupVars>>

GFinish(p, outcome) == [greq EXCEPT ![p].pc = "done", ![p].outcome = outcome]

GGoto(p, pc) == [greq EXCEPT ![p].pc = pc]

\* a request arrives: a join by code of any user, or the accept of a stored
\* invitation by its invitee
GBegin(p, route, u) ==
    /\ greq[p].pc = "idle"
    /\ route = "accept" => u \in Invitees /\ invitations[u].exists
    /\ greq' = [greq EXCEPT ![p] = [pc |-> IF route = "join" THEN "member" ELSE "load",
                                    route |-> route, user |-> u, outcome |-> ""]]
    /\ UNCHANGED <<members, invitations, groupConcFrame>>

\* join_group_view: GroupMembership.objects.filter(user, group).exists()
JMember(p) ==
    /\ greq[p].pc = "member" /\ greq[p].route = "join"
    /\ greq' = IF greq[p].user \in members THEN GFinish(p, "already a member")
               ELSE GGoto(p, "count")
    /\ UNCHANGED <<members, invitations, groupConcFrame>>

\* join_group_view: group.member_count >= group.max_members
JCount(p) ==
    /\ greq[p].pc = "count" /\ greq[p].route = "join"
    /\ greq' = IF Cardinality(members) >= group.max_members THEN GFinish(p, "full")
               ELSE IF group.is_private THEN GGoto(p, "invited")
               ELSE GGoto(p, "create")
    /\ UNCHANGED <<members, invitations, groupConcFrame>>

\* join_group_view: the pending invitation of a private group
JInvited(p) ==
    /\ greq[p].pc = "invited" /\ greq[p].route = "join"
    /\ greq' = IF /\ InvitationOf(greq[p].user).exists
                  /\ InvitationOf(greq[p].user).status = "pending"
               THEN GGoto(p, "create")
               ELSE GFinish(p, "not invited")
    /\ UNCHANGED <<members, invitations, groupConcFrame>>

\* GroupMembership.objects.create: unique_together ['user', 'group'] raises
\* IntegrityError for a second row of the user
GCreate(p) ==
    /\ greq[p].pc = "create"
    /\ IF greq[p].user \in members
       THEN /\ greq' = GFinish(p, "IntegrityError")
            /\ UNCHANGED members
       ELSE /\ members' = members \cup {greq[p].user}
            /\ greq' = IF greq[p].route = "join" THEN GFinish(p, "joined")
                       ELSE GGoto(p, "save")
    /\ UNCHANGED <<invitations, groupConcFrame>>

\* accept_invitation_view loads the invitation and tests status and expiry
\* on the loaded instance, as accept() does again
ALoad(p) ==
    /\ greq[p].pc = "load" /\ greq[p].route = "accept"
    /\ IF invitations[greq[p].user].status # "pending"
       THEN /\ greq' = GFinish(p, "no longer valid")
            /\ UNCHANGED invitations
       ELSE IF IsExpired(invitations[greq[p].user], today)
       THEN /\ invitations' = [invitations EXCEPT ![greq[p].user].status = "expired"]
            /\ greq' = GFinish(p, "expired")
       ELSE /\ greq' = GGoto(p, "count")
            /\ UNCHANGED invitations
    /\ UNCHANGED <<members, groupConcFrame>>

\* can_join: self.member_count >= self.max_members
ACount(p) ==
    /\ greq[p].pc = "count" /\ greq[p].route = "accept"
    /\ greq' = IF Cardinality(members) >= group.max_members THEN GFinish(p, "Group is full")
               ELSE GGoto(p, "member")
    /\ UNCHANGED <<members, invitations, groupConcFrame>>

\* can_join: user in self.members.all()
AMember(p) ==
    /\ greq[p].pc = "member" /\ greq[p].route = "accept"
    /\ greq' = IF greq[p].user \in members THEN GFinish(p, "Already a member")
               ELSE GGoto(p, "create")
    /\ UNCHANGED <<members, invitations, groupConcFrame>>

\* accept: self.status = 'accepted'; self.save()
ASave(p) ==
    /\ greq[p].pc = "save" /\ greq[p].route = "accept"
    /\ invitations' = [invitations EXCEPT ![greq[p].user].status = "accepted"]
    /\ greq' = GFinish(p, "accepted")
    /\ UNCHANGED <<members, groupConcFrame>>

\* a group with its admin, with or without a pending invitation of u1
GroupConcInit ==
    /\ SeasonIdle
    /\ FixtureIdle
    /\ PredIdle
    /\ StatIdle
    /\ TableIdle
    /\ ExtraIdle
    /\ today = 0
    /\ group \in [is_private : BOOLEAN, max_members : {2, 3}]
    /\ members = {Creator}
    /\ invitations \in [Invitees -> {NoInvitation,
                                     [exists |-> TRUE, status |-> "pending",
                                      created_at |-> 0]}]
    /\ groupLog = NoGroupOp
    /\ greq = [p \in GroupProcs |-> IdleGroupRequest]

GroupConcNext ==
    \E p \in GroupProcs :
        \/ \E route \in GroupRoutes, u \in Users : GBegin(p, route, u)
        \/ JMember(p)
        \/ JCount(p)
        \/ JInvited(p)
        \/ GCreate(p)
        \/ ALoad(p)
        \/ ACount(p)
        \/ AMember(p)
        \/ ASave(p)

SpecGroupConc == GroupConcInit /\ [][GroupConcNext]_vars

\* C26: in every state reached by any interleaving of join-by-code requests
\* and invitation accepts for the group, the number of its memberships never
\* exceeds max_members.
C26_CapacityNeverExceeded == Cardinality(members) <= group.max_members
CommandFailures == {"command_invalid", "command_not_found", "command_error"}

\* C30: when the set_current_season command fails, because the season name
\* is malformed, no season has the given years, or more than one season has
\* them, the is_current flag of every season is as it was before the command.
C30_FailedCommandKeepsFlags ==
    seasonLog.op \in CommandFailures => is_current = seasonLog.before

\* the command failed on a name that two seasons carry while a season was
\* current
C30_Witness ==
    /\ seasonLog.op = "command_error"
    /\ \E s \in Seasons : seasonLog.before[s]
(***************************************************************************)
(* The populate_seasons command on the Season table.                       *)
(***************************************************************************)

\* seasons_data, its last three entries: the list of the command runs from
\* 2010/2011 to 2025/2026 and flags 2024/2025 alone
seasons_data == <<[start_year |-> 2023, is_current |-> FALSE],
                  [start_year |-> 2024, is_current |-> TRUE],
                  [start_year |-> 2025, is_current |-> FALSE]>>

\* Season.objects.filter(is_current=True).update(is_current=False)
TableClearCurrent(tbl) == [k \in PopKeys |-> [tbl[k] EXCEPT !.is_current = FALSE]]

\* Season.save on this table: clear every flag when the instance is current,
\* then insert or update the instance's row
TableSave(tbl, k, flag) ==
    [(IF flag THEN TableClearCurrent(tbl) ELSE tbl)
        EXCEPT ![k] = [exists |-> TRUE, is_current |-> flag]]

\* the rows matched by start_year and end_year, whatever their league
RowsOfYear(tbl, y) == {k \in PopKeys : tbl[k].exists /\ k[1] = y}

TableHasCurrent(tbl) == \E k \in PopKeys : tbl[k].exists /\ tbl[k].is_current

\* Season.objects.get_or_create(start_year, end_year, defaults): get raises
\* MultipleObjectsReturned on two rows; create saves a league-less row with
\* the is_current of the defaults
GetOrCreate(tbl, d) ==
    LET rows == RowsOfYear(tbl, d.start_year) IN
    IF Cardinality(rows) > 1
    THEN [tbl |-> tbl, created |-> 0, raised |-> TRUE]
    ELSE IF rows # {}
    THEN [tbl |-> tbl, created |-> 0, raised |-> FALSE]
    ELSE [tbl |-> TableSave(tbl, <<d.start_year, NoLeague>>, d.is_current),
          created |-> 1, raised |-> FALSE]

\* the loop of handle over seasons_data from entry i on
RECURSIVE CreateSeasons(_, _, _)
CreateSeasons(tbl, i, n) ==
    IF i > Len(seasons_data)
    THEN [tbl |-> tbl, created |-> n, raised |-> FALSE]
    ELSE LET r == GetOrCreate(tbl, seasons_data[i]) IN
         IF r.raised
         THEN [tbl |-> tbl, created |-> n, raised |-> TRUE]
         ELSE CreateSeasons(r.tbl, i + 1, n + r.created)

\* the tail of handle: 2024/2025 becomes current when filter(is_current=True)
\* is empty
SetDefaultCurrent(tbl) ==
    IF TableHasCurrent(tbl) THEN tbl
    ELSE IF Cardinality(RowsOfYear(tbl, 2024)) = 1
    THEN TableSave(tbl, CHOOSE k \in RowsOfYear(tbl, 2024) : TRUE, TRUE)
    ELSE tbl

\* populate_seasons Command.handle; the exception of get_or_create ends the
\* command and keeps the rows already created
PopulateSeasons(tbl) ==
    LET r == CreateSeasons(tbl, 1, 0) IN
    IF r.raised
    THEN [tbl |-> r.tbl, created |-> r.created, outcome |-> "MultipleObjectsReturned"]
    ELSE [tbl |-> SetDefaultCurrent(r.tbl), created |-> r.created, outcome |-> "ok"]

\* a season created or edited in the admin
SeasonRowSave(k, flag) ==
    /\ season_table' = TableSave(season_table, k, flag)
    /\ popLog' = [NoPopOp EXCEPT !.op = "save"]
    /\ UNCHANGED <<codeVars, formVars, nonExtraVars>>

\* manage.py populate_seasons
CommandPopulate ==
    LET r == PopulateSeasons(season_table) IN
    /\ season_table' = r.tbl
    /\ popLog' = [op |-> "populate", outcome |-> r.outcome, created |-> r.created,
                  before |-> season_table]
    /\ UNCHANGED <<codeVars, formVars, nonExtraVars>>

PopulateInit ==
    /\ SeasonIdle
    /\ FixtureIdle
    /\ PredIdle
    /\ OtherIdle

PopulateNext ==
    \/ \E k \in PopKeys, flag \in BOOLEAN : SeasonRowSave(k, flag)
    \/ CommandPopulate

SpecPopulate == PopulateInit /\ [][PopulateNext]_vars

\* C29: when some season is current before a run of populate_seasons, the
\* same season and only that one is current after the run; and a second run
\* right after a run creates no season and changes no flag.
C29_PopulateKeepsCurrent ==
    popLog.op = "populate" =>
        /\ TableHasCurrent(popLog.before) =>
               \A k \in PopKeys :
                   season_table[k].is_current = popLog.before[k].is_current
        /\ PopulateSeasons(season_table).created = 0
        /\ PopulateSeasons(season_table).tbl = season_table
(***************************************************************************)
(* A match is finished, scored and aggregated: the fixture update, the     *)
(* admin action calculate_points_for_predictions and the two update_stats. *)
(***************************************************************************)

\* FixtureAdmin.calculate_points_for_predictions with match m selected:
\* queryset.filter(status_long='Match Finished'), then calculate_points of
\* every prediction of the match
BookCalculatePoints(m) ==
    /\ book' = IF StatusLong(book[m].status) = "Match Finished" /\ book[m].p.exists
               THEN [book EXCEPT ![m].p.points_earned =
                         Points(book[m].p, book[m].status,
                                book[m].home_goals, book[m].away_goals)]
               ELSE book
    /\ statLog' = "scorer"
    /\ UNCHANGED <<group_leagues, member, profile, ureq>>
    /\ UNCHANGED nonStatVars

\* scheduled matches with any predictions of the user, none scored yet
ResultInit ==
    /\ SeasonIdle
    /\ FixtureIdle
    /\ PredIdle
    /\ TableIdle
    /\ GroupIdle
    /\ ExtraIdle
    /\ book \in [StatMatches -> {e \in StatEntries : e.status = "NS" /\ e.home_goals = Null
                                                     /\ e.away_goals = Null}]
    /\ group_leagues \in GroupLeagueSets
    /\ member = NoStats
    /\ profile = NoProfileStats
    /\ statLog = "none"
    /\ ureq = [p \in StatProcs |-> IdleStatRequest]

ResultNext ==
    \/ \E m \in StatMatches, g \in GoalPairs : FinishFixture(m, g)
    \/ \E m \in StatMatches : BookCalculatePoints(m)
    \/ MembershipUpdateStats
    \/ ProfileUpdateStats

SpecResult == ResultInit /\ [][ResultNext]_vars

\* the score of match entry e under the scoring policy
EntryPolicyScore(e) ==
    IF e.home_goals = Null \/ e.away_goals = Null THEN 0
    ELSE IF e.p.predicted_home_score = e.home_goals
            /\ e.p.predicted_away_score = e.away_goals THEN 5
    ELSE IF e.p.predicted_result =
                (IF e.home_goals > e.away_goals THEN "H"
                 ELSE IF e.away_goals > e.home_goals THEN "A" ELSE "D") THEN 2
    ELSE 0

\* C25: whenever a match transitions to a finished status the scorer is
\* invoked for it: the step that stores the match as finished leaves every
\* prediction on it with points_earned equal to its score under the policy.
C25_FinishInvokesScorer ==
    [][\A m \in StatMatches :
           (/\ ~IsFinished(book[m].status)
            /\ IsFinished(book'[m].status)
            /\ book[m].p.exists) =>
               book'[m].p.points_earned = EntryPolicyScore(book'[m])]_vars
(***************************************************************************)
(* UserGroup.save and the join code.                                       *)
(***************************************************************************)

\* range(8) of UserGroup.save
CodeLength == 8

\* string.ascii_uppercase + string.digits, two of its 36 characters
CodeAlphabet == {"A", "7"}

\* ''.join(secrets.choice(alphabet) for _ in range(8)): three of the
\* sequences it can draw
GeneratedCodes ==
    {[i \in 1..CodeLength |-> a] : a \in CodeAlphabet} \cup
    {[i \in 1..CodeLength |-> IF i % 2 = 1 THEN "A" ELSE "7"]}

\* what a staff user types into the join_code field of UserGroupAdmin
TypedCodes == {NoCode, <<"a", "b">>}

\* the unique constraint of join_code: another stored row holds the code
CodeTaken(rows, g, code) ==
    \E h \in GroupIds \ {g} : rows[h].exists /\ rows[h].join_code = code

\* a faulty save that draws codes until one is free
SaveCodeRetrying(rows, g, current, drawn) ==
    IF current # NoCode THEN current
    ELSE IF ~CodeTaken(rows, g, drawn) THEN drawn
    ELSE CHOOSE c \in GeneratedCodes : ~CodeTaken(rows, g, c)

\* the join_code UserGroup.save hands to super().save(): the instance's own,
\* or the one drawn when it has none
SaveCode(rows, g, current, drawn) ==
    IF current # NoCode THEN current ELSE drawn

\* UserGroup.save of instance g holding join_code current; the INSERT or
\* UPDATE raises IntegrityError when the code is taken
GroupSave(g, op, current, drawn) ==
    LET code == SaveCode(ugroups, g, current, drawn) IN
    /\ IF CodeTaken(ugroups, g, code)
       THEN /\ codeLog' = [op |-> op, group |-> g, outcome |-> "IntegrityError",
                           before |-> ugroups[g].join_code]
            /\ UNCHANGED ugroups
       ELSE /\ ugroups' = [ugroups EXCEPT ![g] = [exists |-> TRUE, join_code |-> code]]
            /\ codeLog' = [op |-> op, group |-> g, outcome |-> "ok",
                           before |-> ugroups[g].join_code]
    /\ UNCHANGED <<populateVars, formVars, nonExtraVars>>

\* a new group is saved for the first time (CreateGroupForm.save, or the add
\* form of the admin with join_code left blank)
GroupCreate(g, drawn) ==
    /\ ~ugroups[g].exists
    /\ GroupSave(g, "create", NoCode, drawn)

\* a stored group is loaded and saved again
GroupResave(g, drawn) ==
    /\ ugroups[g].exists
    /\ GroupSave(g, "save", ugroups[g].join_code, drawn)

\* the change form of UserGroupAdmin with the join_code field edited: the
\* form's unique check refuses a taken code, a blank one is drawn again
GroupAdminEdit(g, typed, drawn) ==
    /\ ugroups[g].exists
    /\ IF typed # NoCode /\ CodeTaken(ugroups, g, typed)
       THEN /\ codeLog' = [op |-> "admin", group |-> g, outcome |-> "invalid",
                           before |-> ugroups[g].join_code]
            /\ UNCHANGED <<ugroups, populateVars, formVars, nonExtraVars>>
       ELSE GroupSave(g, "admin", typed, drawn)

CodeInit ==
    /\ SeasonIdle
    /\ FixtureIdle
    /\ PredIdle
    /\ OtherIdle

CodeNext ==
    \/ \E g \in GroupIds, drawn \in GeneratedCodes : GroupCreate(g, drawn)
    \/ \E g \in GroupIds, drawn \in GeneratedCodes : GroupResave(g, drawn)
    \/ \E g \in GroupIds, drawn \in GeneratedCodes, typed \in TypedCodes :
           GroupAdminEdit(g, typed, drawn)

SpecCode == CodeInit /\ [][CodeNext]_vars

\* the 8-character codes of uppercase letters and digits
WellFormedCode(code) ==
    /\ Len(code) = 8
    /\ \A i \in 1..Len(code) : code[i] \in {"A", "7"}

\* C21: every stored group has an 8-character join code of uppercase letters
\* and digits from its first save; a later save leaves the code as it was; no
\* two groups share a code; and the first save of a group succeeds, a drawn
\* code that collides with a stored one being drawn again.
C21_JoinCodeOnceUniqueRetried ==
    /\ \A g \in GroupIds : ugroups[g].exists => WellFormedCode(ugroups[g].join_code)
    /\ codeLog.op \in {"save", "admin"} =>
           ugroups[codeLog.group].join_code = codeLog.before
    /\ \A g, h \in GroupIds :
           (g # h /\ ugroups[g].exists /\ ugroups[h].exists) =>
               ugroups[g].join_code # ugroups[h].join_code
    /\ codeLog.op = "create" =>
           codeLog.outcome = "ok" /\ ugroups[codeLog.group].exists
(***************************************************************************)
(* CreateGroupForm: the text of round_numbers and match_dates.  A text is  *)
(* a sequence of one-character strings.                                    *)
(***************************************************************************)
DigitChars == <<"0", "1", "2", "3", "4", "5", "6", "7", "8", "9">>

IsDigitChar(c) == \E i \in 1..Len(DigitChars) : DigitChars[i] = c

DigitValue(c) == (CHOOSE i \in 1..Len(DigitChars) : DigitChars[i] = c) - 1

\* str.isdigit: not empty and digits only
IsDigit(s) == Len(s) > 0 /\ \A i \in 1..Len(s) : IsDigitChar(s[i])

\* int(s) of a digit text
RECURSIVE ToInt(_)
ToInt(s) ==
    IF Len(s) = 0 THEN 0
    ELSE 10 * ToInt(SubSeq(s, 1, Len(s) - 1)) + DigitValue(s[Len(s)])

\* str(n) of a natural number
RECURSIVE ToStr(_)
ToStr(n) ==
    IF n < 10 THEN <<DigitChars[n + 1]>>
    ELSE Append(ToStr(n \div 10), DigitChars[(n % 10) + 1])

\* str.split(sep): the pieces between the separators, empty ones included
RECURSIVE SplitText(_, _)
SplitText(s, sep) ==
    IF \A i \in 1..Len(s) : s[i] # sep THEN <<s>>
    ELSE LET k == CHOOSE i \in 1..Len(s) :
                      s[i] = sep /\ \A j \in 1..(i - 1) : s[j] # sep
         IN <<SubSeq(s, 1, k - 1)>> \o SplitText(SubSeq(s, k + 1, Len(s)), sep)

\* str.strip
RECURSIVE StripText(_)
StripText(s) ==
    IF Len(s) = 0 THEN s
    ELSE IF s[1] = " " THEN StripText(Tail(s))
    ELSE IF s[Len(s)] = " " THEN StripText(SubSeq(s, 1, Len(s) - 1))
    ELSE s

\* str.replace(c, '')
RemoveChar(s, c) == SelectSeq(s, LAMBDA x : x # c)

HasChar(s, c) == \E i \in 1..Len(s) : s[i] = c

\* [str(i) for i in range(start, end + 1)]
RECURSIVE RangeTexts(_, _)
RangeTexts(start, end) ==
    IF start > end THEN <<>>
    ELSE <<ToStr(start)>> \o RangeTexts(start + 1, end)

\* a token that is a range for the code: it holds a dash and is digits only
\* once the dashes are removed
IsRangeToken(part) == HasChar(part, "-") /\ IsDigit(RemoveChar(part, "-"))

\* start, end = map(int, round_part.split('-')) raises ValueError unless the
\* token splits into exactly two digit texts
RangeRaises(part) ==
    LET pieces == SplitText(part, "-")
    IN Len(pieces) # 2 \/ \E i \in 1..Len(pieces) : ~IsDigit(pieces[i])

\* the rounds one token of round_numbers adds
TokenRounds(part) ==
    IF IsRangeToken(part)
    THEN LET pieces == SplitText(part, "-")
         IN RangeTexts(ToInt(pieces[1]), ToInt(pieces[2]))
    ELSE <<part>>

\* the loop over round_numbers.split(',') from piece i on: the rounds list
\* as a set of texts, or the ValueError of a token
RECURSIVE ParseRounds(_, _)
ParseRounds(parts, i) ==
    IF i > Len(parts) THEN [raised |-> FALSE, rounds |-> {}]
    ELSE LET part == StripText(parts[i]) IN
         IF IsRangeToken(part) /\ RangeRaises(part)
         THEN [raised |-> TRUE, rounds |-> {}]
         ELSE LET rest == ParseRounds(parts, i + 1)
                  mine == TokenRounds(part)
              IN IF rest.raised THEN rest
                 ELSE [raised |-> FALSE,
                       rounds |-> {mine[n] : n \in 1..Len(mine)} \cup rest.rounds]

\* the round_number values of the GroupLeagueRound rows get_or_create stores
RoundsOf(text) == ParseRounds(SplitText(text, ","), 1)

\* days of month m of year y
DaysInMonth(y, m) ==
    IF m = 2
    THEN (IF (y % 4 = 0 /\ y % 100 # 0) \/ y % 400 = 0 THEN 29 ELSE 28)
    ELSE IF m \in {4, 6, 9, 11} THEN 30 ELSE 31

\* datetime.strptime(text, '%Y-%m-%d') raises ValueError
DateRaises(text) ==
    LET pieces == SplitText(text, "-") IN
    \/ Len(pieces) # 3
    \/ \E i \in 1..Len(pieces) : ~IsDigit(pieces[i])
    \/ Len(pieces[1]) # 4 \/ Len(pieces[2]) > 2 \/ Len(pieces[3]) > 2
    \/ ToInt(pieces[1]) < 1
    \/ ToInt(pieces[2]) \notin 1..12
    \/ ToInt(pieces[3]) \notin 1..DaysInMonth(ToInt(pieces[1]), ToInt(pieces[2]))

\* datetime.strptime(text, '%Y-%m-%d').date()
DateOf(text) ==
    LET pieces == SplitText(text, "-")
    IN <<ToInt(pieces[1]), ToInt(pieces[2]), ToInt(pieces[3])>>

\* [date.strip() for date in match_dates.split(',')]
DateTokens(text) ==
    LET pieces == SplitText(text, ",") IN [i \in 1..Len(pieces) |-> StripText(pieces[i])]
(***************************************************************************)
(* CreateGroupForm and create_group_view.                                  *)
(***************************************************************************)
SELECTION_TYPE_CHOICES == {"leagues", "rounds", "dates", "mixed"}

\* the texts typed into round_numbers: none, "1,3-5", "Q-f, 2", "-5",
\* "1-2-3", "5-3"
RoundTexts ==
    {<<>>,
     <<"1", ",", "3", "-", "5">>,
     <<"Q", "-", "f", ",", " ", "2">>,
     <<"-", "5">>,
     <<"1", "-", "2", "-", "3">>,
     <<"5", "-", "3">>}

\* the texts typed into match_dates: none, "2024-02-29", "2024-13-01",
\* "2024-02-29, x"
DateTexts ==
    {<<>>,
     <<"2", "0", "2", "4", "-", "0", "2", "-", "2", "9">>,
     <<"2", "0", "2", "4", "-", "1", "3", "-", "0", "1">>,
     <<"2", "0", "2", "4", "-", "0", "2", "-", "2", "9", ",", " ", "x">>}

Configs ==
    [selection_type : SELECTION_TYPE_CHOICES,
     leagues : {{}, {"L1"}},
     round_league : {NoLeague, "L2"},
     round_season : {NoSeason, 1},
     round_numbers : RoundTexts,
     match_dates : DateTexts,
     date_leagues : {{}, {"L1"}}]

\* the leagues field is built on League.objects.none(): every submitted
\* league is an invalid choice
FieldsValid(cfg) == cfg.leagues = {}

\* cleaned_data.get('leagues'): absent when the field failed
CleanedLeagues(cfg) == IF FieldsValid(cfg) THEN cfg.leagues ELSE {}

RoundsGiven(cfg) ==
    cfg.round_league # NoLeague /\ cfg.round_season # NoSeason /\ cfg.round_numbers # <<>>

\* a date of the text that strptime refuses
SomeDateRaises(text) ==
    \E i \in 1..Len(DateTokens(text)) : DateRaises(DateTokens(text)[i])

\* CreateGroupForm.clean raises ValidationError
CleanRaises(cfg) ==
    IF cfg.selection_type = "leagues" THEN CleanedLeagues(cfg) = {}
    ELSE IF cfg.selection_type = "rounds" THEN ~RoundsGiven(cfg)
    ELSE IF cfg.selection_type = "dates"
    THEN cfg.match_dates = <<>> \/ SomeDateRaises(cfg.match_dates)
    ELSE ~(CleanedLeagues(cfg) # {} \/ RoundsGiven(cfg) \/ cfg.match_dates # <<>>)

\* form.is_valid()
IsValid(cfg) == FieldsValid(cfg) /\ ~CleanRaises(cfg)

\* the group row of super().save() and of group.save()
SavedGroup == [EmptyStore EXCEPT !.group = TRUE]

\* _save_match_selections, the league part: group.leagues.set(leagues)
SaveLeagues(st, cfg) ==
    IF cfg.selection_type \in {"leagues", "mixed"} /\ cfg.leagues # {}
    THEN [st EXCEPT !.leagues = cfg.leagues]
    ELSE st

\* _save_match_selections, the round part: the parse, then one
\* get_or_create per round
SaveRounds(st, cfg) ==
    IF cfg.selection_type \in {"rounds", "mixed"} /\ RoundsGiven(cfg)
    THEN LET parsed == RoundsOf(cfg.round_numbers) IN
         IF parsed.raised THEN [store |-> st, raised |-> TRUE]
         ELSE [store |-> [st EXCEPT !.rounds =
                              {<<cfg.round_league, cfg.round_season, StripText(r)>> :
                                   r \in parsed.rounds}],
               raised |-> FALSE]
    ELSE [store |-> st, raised |-> FALSE]

\* _save_match_selections, the date loop from token i on: strptime, then
\* get_or_create and specific_leagues.set
RECURSIVE SaveDatesFrom(_, _, _, _)
SaveDatesFrom(st, tokens, i, date_leagues) ==
    IF i > Len(tokens) THEN [store |-> st, raised |-> FALSE]
    ELSE IF DateRaises(tokens[i]) THEN [store |-> st, raised |-> TRUE]
    ELSE LET day == DateOf(tokens[i])
             others == {d \in st.dates : d.match_date # day}
             row == [match_date |-> day, specific_leagues |-> date_leagues]
         IN SaveDatesFrom([st EXCEPT !.dates = others \cup {row}], tokens, i + 1,
                          date_leagues)

SaveDates(st, cfg) ==
    IF cfg.selection_type \in {"dates", "mixed"} /\ cfg.match_dates # <<>>
    THEN SaveDatesFrom(st, DateTokens(cfg.match_dates), 1, cfg.date_leagues)
    ELSE [store |-> st, raised |-> FALSE]

\* all_group_leagues at the end of _save_match_selections
AllGroupLeagues(cfg) ==
    (IF cfg.selection_type \in {"leagues", "mixed"} THEN cfg.leagues ELSE {})
    \cup (IF cfg.selection_type \in {"rounds", "mixed"} /\ RoundsGiven(cfg)
          THEN {cfg.round_league} ELSE {})
    \cup (IF cfg.selection_type \in {"dates", "mixed"} /\ cfg.match_dates # <<>>
          THEN cfg.date_leagues ELSE {})

\* _save_match_selections, the closing update of group.leagues
SaveAllLeagues(st, cfg) ==
    IF AllGroupLeagues(cfg) = {} THEN st
    ELSE IF cfg.selection_type \in {"rounds", "dates"}
    THEN [st EXCEPT !.leagues = AllGroupLeagues(cfg)]
    ELSE IF cfg.selection_type = "mixed"
    THEN [st EXCEPT !.leagues = st.leagues \cup AllGroupLeagues(cfg)]
    ELSE st

\* _save_match_selections on the stored group: a ValueError leaves what was
\* written before it
SaveMatchSelections(st, cfg) ==
    LET a == SaveLeagues(st, cfg)
        b == SaveRounds(a, cfg)
        c == SaveDates(b.store, cfg)
    IN IF b.raised THEN b
       ELSE IF c.raised THEN c
       ELSE [store |-> SaveAllLeagues(c.store, cfg), raised |-> FALSE]

\* one submission on the empty tables: a refused one leaves them empty, as
\* they were before it
FirstSubmission == ~gstore.group /\ formLog.op = "none"

\* create_group_view, POST: is_valid, form.save(commit=False), group.save(),
\* form.save_m2m(), the creator's membership.  save(commit=False) skips
\* _save_match_selections, and save_m2m writes the many-to-many fields of
\* Meta.fields only, which leagues is not among
CreateGroupView(cfg) ==
    /\ FirstSubmission
    /\ IF IsValid(cfg)
       THEN /\ gstore' = [SavedGroup EXCEPT !.creator_member = TRUE]
            /\ formLog' = [op |-> "create_view", outcome |-> "created", input |-> cfg]
       ELSE /\ formLog' = [op |-> "create_view", outcome |-> "invalid", input |-> cfg]
            /\ UNCHANGED gstore
    /\ UNCHANGED <<populateVars, codeVars, nonExtraVars>>

\* is_valid and CreateGroupForm.save() with commit=True on an instance that
\* carries its creator
CreateGroupFormSave(cfg) ==
    /\ FirstSubmission
    /\ IF IsValid(cfg)
       THEN LET r == SaveMatchSelections(SavedGroup, cfg) IN
            /\ gstore' = r.store
            /\ formLog' = [op |-> "form_save",
                           outcome |-> IF r.raised THEN "ValueError" ELSE "saved",
                           input |-> cfg]
       ELSE /\ formLog' = [op |-> "form_save", outcome |-> "invalid", input |-> cfg]
            /\ UNCHANGED gstore
    /\ UNCHANGED <<populateVars, codeVars, nonExtraVars>>

FormInit ==
    /\ SeasonIdle
    /\ FixtureIdle
    /\ PredIdle
    /\ OtherIdle

FormNext ==
    \/ \E cfg \in Configs : CreateGroupView(cfg)
    \/ \E cfg \in Configs : CreateGroupFormSave(cfg)

SpecForm == FormInit /\ [][FormNext]_vars
\* the claimed reading of one token: 'a-b' with numeric a and b is every
\* integer from a to b, any other token is itself
ClaimedTokenRounds(part) ==
    LET pieces == SplitText(part, "-") IN
    IF Len(pieces) = 2 /\ IsDigit(pieces[1]) /\ IsDigit(pieces[2])
    THEN {RangeTexts(ToInt(pieces[1]), ToInt(pieces[2]))[n] :
              n \in 1..Len(RangeTexts(ToInt(pieces[1]), ToInt(pieces[2])))}
    ELSE {part}

\* the claimed tokens of a round_numbers text
ClaimedRounds(text) ==
    UNION {ClaimedTokenRounds(StripText(SplitText(text, ",")[i])) :
               i \in 1..Len(SplitText(text, ","))}

DatesUsed(cfg) == cfg.selection_type \in {"dates", "mixed"} /\ cfg.match_dates # <<>>

RoundsUsed(cfg) == cfg.selection_type \in {"rounds", "mixed"} /\ RoundsGiven(cfg)

\* C22: when CreateGroupForm.save stores a valid configuration with round
\* numbers (and no unreadable date), the input is split on commas, a token
\* 'a-b' with numeric a and b expands to every integer from a to b, every
\* other token is kept verbatim, "1,3-5" gives exactly 1, 3, 4, 5, and one
\* round record per token is stored for the (group, league, season).
C22_RoundTokensStored ==
    /\ RoundsOf(<<"1", ",", "3", "-", "5">>) =
           [raised |-> FALSE, rounds |-> {<<"1">>, <<"3">>, <<"4">>, <<"5">>}]
    /\ (/\ formLog.op = "form_save"
        /\ formLog.outcome # "invalid"
        /\ RoundsUsed(formLog.input)
        /\ ~(DatesUsed(formLog.input) /\ SomeDateRaises(formLog.input.match_dates))) =>
           /\ formLog.outcome = "saved"
           /\ gstore.rounds =
                  {<<formLog.input.round_league, formLog.input.round_season, r>> :
                       r \in ClaimedRounds(formLog.input.round_numbers)}

\* C23: a configuration whose date list holds a token that is not a valid
\* YYYY-MM-DD date is rejected at validation, in 'dates' mode and in 'mixed'
\* mode alike, and nothing is stored for it: no group row, no league, no
\* round record and no date record.
C23_BadDateRejected ==
    (/\ formLog.op \in {"create_view", "form_save"}
     /\ DatesUsed(formLog.input)
     /\ SomeDateRaises(formLog.input.match_dates)) =>
        /\ formLog.outcome = "invalid"
        /\ gstore = EmptyStore

\* the leagues the selection of a configuration touches
TouchedLeagues(cfg) ==
    IF cfg.selection_type = "leagues" THEN cfg.leagues
    ELSE IF cfg.selection_type = "rounds" THEN {cfg.round_league}
    ELSE IF cfg.selection_type = "dates" THEN cfg.date_leagues
    ELSE cfg.leagues
         \cup (IF RoundsGiven(cfg) THEN {cfg.round_league} ELSE {})
         \cup (IF cfg.match_dates # <<>> THEN cfg.date_leagues ELSE {})

\* C24: after create_group_view created a group from a valid configuration,
\* the group's leagues are the union of the leagues its selection touches,
\* and the round records and the date records of the selection exist.
C24_ViewStoresSelection ==
    (formLog.op = "create_view" /\ formLog.outcome = "created") =>
        /\ gstore.leagues = TouchedLeagues(formLog.input)
        /\ RoundsUsed(formLog.input) =>
               \A r \in ClaimedRounds(formLog.input.round_numbers) :
                   <<formLog.input.round_league, formLog.input.round_season, r>>
                       \in gstore.rounds
        /\ DatesUsed(formLog.input) =>
               \A i \in 1..Len(DateTokens(formLog.input.match_dates)) :
                   ~DateRaises(DateTokens(formLog.input.match_dates)[i]) =>
                       \E d \in gstore.dates :
                           d.match_date = DateOf(DateTokens(formLog.input.match_dates)[i])
====
